---- MODULE Spec2Model ----
(* Model of the wallet signal bot (hyperdash_telegram_bot_mtproto_coinglass.py): *)
(* snapshot providers, resolver, diff engine, state store and poller loop.      *)
(* Python dicts are records/functions whose DOMAIN is the set of present keys;  *)
(* a dict whose iteration order matters (tokens) is a sequence of [sym, val]    *)
(* entries with distinct sym, in insertion order. USD magnitudes are integers,  *)
(* counted in 1/PerUSD of a dollar.                                             *)
EXTENDS Integers, Sequences, FiniteSets, TLC

\* ---------------------------------------------------------------- values
\* Python None, as returned by a fetcher or by the resolver.
None == [none |-> TRUE]

\* Outcome of a fetcher call that raised an exception to its caller.
Raise == [raise |-> TRUE]

\* `if r:` on a fetcher result: None is falsy, every snapshot dict has keys.
Truthy(r) == r # None

\* dict.get(k, d)
Get(d, k, dflt) == IF k \in DOMAIN d THEN d[k] ELSE dflt

\* MIN_POSITION_VALUE_USD (default of the environment variable), in dollars
MIN_POSITION_VALUE_USD == 10

\* how many units of magnitude make one dollar
PerUSD == 2

\* the magnitude of x dollars
USD(x) == x * PerUSD

\* ---------------------------------------------------------------- dict helpers
\* keys of an insertion-ordered dict
Keys(toks) == {toks[i].sym : i \in 1..Len(toks)}

\* tokens.get(sym, dflt)
TokGet(toks, sym, dflt) ==
  IF sym \in Keys(toks)
  THEN (CHOOSE e \in {toks[i] : i \in 1..Len(toks)} : e.sym = sym).val
  ELSE dflt

\* tokens[sym] = tokens.get(sym, 0) + v : update in place or append
TokAdd(toks, sym, v) ==
  IF sym \in Keys(toks)
  THEN [i \in 1..Len(toks) |->
          IF toks[i].sym = sym THEN [sym |-> sym, val |-> toks[i].val + v] ELSE toks[i]]
  ELSE Append(toks, [sym |-> sym, val |-> v])

Abs(x) == IF x < 0 THEN -x ELSE x

RECURSIVE SumVals(_)
SumVals(s) == IF s = <<>> THEN 0 ELSE Head(s).val + SumVals(Tail(s))

\* ---------------------------------------------------------------- fetchers
\* An HTTP exchange: err = the request raised (network error, timeout);
\* ok = status is 2xx; json = the body parses to the expected shape;
\* data = the parsed payload (the empty payload when the body has no data key).

\* for item in j.get("data", []): tokens[sym] = tokens.get(sym, 0) + balance_usd
RECURSIVE CoinglassTokens(_, _)
CoinglassTokens(items, acc) ==
  IF items = <<>> THEN acc
  ELSE CoinglassTokens(Tail(items), TokAdd(acc, Head(items).symbol, Head(items).balance_usd))

\* positions loop of fetch_from_coinglass: keep |value| >= MIN, side by sign of size
RECURSIVE CoinglassPositions(_, _)
CoinglassPositions(items, acc) ==
  IF items = <<>> THEN acc
  ELSE LET it   == Head(items)
           size == it.position_value_usd
           side == IF it.position_size > 0 THEN "long"
                   ELSE IF it.position_size < 0 THEN "short" ELSE ""
       IN CoinglassPositions(Tail(items),
            IF Abs(size) >= USD(MIN_POSITION_VALUE_USD)
            THEN Append(acc, [symbol |-> it.symbol, size_usd |-> Abs(size), side |-> side])
            ELSE acc)

RECURSIVE SumSizes(_)
SumSizes(ps) == IF ps = <<>> THEN 0 ELSE Head(ps).size_usd + SumSizes(Tail(ps))

\* fetch_from_coinglass(address) with API key flag `key`, assets exchange r,
\* positions exchange r2.
FetchFromCoinglass(address, key, r, r2) ==
  IF ~key THEN None
  ELSE IF r.err \/ (r.ok /\ ~r.json) THEN None
  ELSE LET tokens    == IF r.ok THEN CoinglassTokens(r.data, <<>>) ELSE <<>>
           positions == IF r2.err \/ ~r2.ok \/ ~r2.json THEN <<>>
                        ELSE CoinglassPositions(r2.data, <<>>)
       IN [address   |-> address,
           usd_total |-> SumVals(tokens) + SumSizes(positions),
           tokens    |-> tokens,
           positions |-> positions,
           source    |-> "coinglass"]

\* assets loop of fetch_from_debank: tokens[sym] += price * amount
RECURSIVE DebankTokens(_, _)
DebankTokens(assets, acc) ==
  IF assets = <<>> THEN acc
  ELSE DebankTokens(Tail(assets),
         TokAdd(acc, Head(assets).symbol, Head(assets).price * Head(assets).amount))

\* fetch_from_debank(address): the status code is never looked at.
FetchFromDebank(address, r) ==
  IF r.err \/ ~r.json THEN None
  ELSE [address   |-> address,
        usd_total |-> r.data.total_usd_value,
        tokens    |-> DebankTokens(r.data.wallet_asset_list, <<>>),
        positions |-> <<>>,
        source    |-> "debank"]

\* pairs loop of fetch_from_dexscreener_addr: tokens[base] += liquidity
RECURSIVE DexTokens(_, _)
DexTokens(pairs, acc) ==
  IF pairs = <<>> THEN acc
  ELSE DexTokens(Tail(pairs), TokAdd(acc, Head(pairs).symbol, Head(pairs).liquidity))

\* fetch_from_dexscreener_addr(address)
FetchFromDexscreenerAddr(address, r) ==
  IF r.err \/ ~r.json THEN None
  ELSE LET tokens == DexTokens(r.data, <<>>)
       IN IF tokens # <<>>
          THEN [address |-> address, tokens |-> tokens, source |-> "dexscreener"]
          ELSE None

\* positions loop of fetch_from_hyperdash
RECURSIVE HyperdashPositions(_, _)
HyperdashPositions(arr, acc) ==
  IF arr = <<>> THEN acc
  ELSE LET p == Head(arr)
       IN HyperdashPositions(Tail(arr),
            IF p.notional >= USD(MIN_POSITION_VALUE_USD)
            THEN Append(acc, [symbol |-> p.symbol, size_usd |-> p.notional,
                              side |-> IF p.isLong THEN "long" ELSE "short"])
            ELSE acc)

\* fetch_from_hyperdash(address); json = the page holds a parsable positions array
FetchFromHyperdash(address, r) ==
  IF r.err \/ ~r.ok \/ ~r.json THEN None
  ELSE LET positions == HyperdashPositions(r.data, <<>>)
       IN IF positions # <<>>
          THEN [address |-> address, positions |-> positions, source |-> "hyperdash"]
          ELSE None

\* ---------------------------------------------------------------- resolver
\* The loop of detect_and_build_snapshots over the outcomes outs[i..4] of the
\* fetchers in the order coinglass, debank, dexscreener, hyperdash. A fetcher
\* is called only when the loop reaches it; `consulted` lists the ones called.
RECURSIVE ResolveFromNoCatch(_, _, _)
ResolveFromNoCatch(outs, i, consulted) ==
  IF i > Len(outs) THEN [result |-> None, consulted |-> consulted]
  ELSE IF outs[i] = Raise THEN [result |-> Raise, consulted |-> Append(consulted, i)]
  ELSE IF Truthy(outs[i]) THEN [result |-> outs[i], consulted |-> Append(consulted, i)]
  ELSE ResolveFromNoCatch(outs, i + 1, Append(consulted, i))

RECURSIVE ResolveFromLast(_, _, _)
ResolveFromLast(outs, i, consulted) ==
  IF i > Len(outs) THEN [result |-> None, consulted |-> consulted]
  ELSE LET rest == ResolveFromLast(outs, i + 1, Append(consulted, i))
       IN IF outs[i] # Raise /\ Truthy(outs[i]) /\ rest.result = None
          THEN [result |-> outs[i], consulted |-> rest.consulted]
          ELSE rest

RECURSIVE ResolveFrom(_, _, _)
ResolveFrom(outs, i, consulted) ==
  IF i > Len(outs) THEN [result |-> None, consulted |-> consulted]
  ELSE IF outs[i] # Raise /\ Truthy(outs[i])
       THEN [result |-> outs[i], consulted |-> Append(consulted, i)]
       ELSE ResolveFrom(outs, i + 1, Append(consulted, i))

\* The four fetcher outcomes for one address in world w (one HTTP exchange per
\* endpoint); fault = index of a fetcher whose call raises, 0 for none.
FetcherOutcomes(addr, key, w, fault) ==
  LET f == << FetchFromCoinglass(addr, key, w.assets, w.positions),
              FetchFromDebank(addr, w.debank),
              FetchFromDexscreenerAddr(addr, w.dex),
              FetchFromHyperdash(addr, w.hyper) >>
  IN [i \in 1..4 |-> IF i = fault THEN Raise ELSE f[i]]

\* detect_and_build_snapshots(addr)
DetectAndBuildSnapshots(addr, key, w, fault) ==
  ResolveFrom(FetcherOutcomes(addr, key, w, fault), 1, <<>>)

\* ---------------------------------------------------------------- state store
\* str.lower() over the address universe of the model
LowerTable == [A1 |-> "a1", a1 |-> "a1", B2 |-> "b2", b2 |-> "b2"]

Lower(a) == LowerTable[a]

\* the empty dict {}
EmptyMap == [a \in {} |-> None]

\* default of get_wallet_state
EmptyState == [tokens |-> <<>>, positions |-> <<>>, usd_total |-> 0]

\* get_wallet_state(addr) on the in-memory dict st
GetWalletState(st, addr) ==
  IF Lower(addr) \in DOMAIN st THEN st[Lower(addr)] ELSE EmptyState

\* tokens of old that new does not name, appended to new (a merge, not an overwrite)
RECURSIVE MergeTokens(_, _)
MergeTokens(old, new) ==
  IF old = <<>> THEN new
  ELSE MergeTokens(Tail(old),
         IF Head(old).sym \in Keys(new) THEN new ELSE Append(new, Head(old)))

AssignStateMerge(st, addr, rec) ==
  [a \in DOMAIN st \cup {Lower(addr)} |->
     IF a = Lower(addr)
     THEN [rec EXCEPT !.tokens = MergeTokens(Get(GetWalletState(st, addr), "tokens", <<>>), @)]
     ELSE st[a]]

\* state[addr.lower()] = snap, the in-memory half of set_wallet_state
AssignState(st, addr, rec) ==
  [a \in DOMAIN st \cup {Lower(addr)} |-> IF a = Lower(addr) THEN rec ELSE st[a]]

\* new_state of process_wallet_sync (updated_at, a wall-clock stamp, is left out)
NewState(snap) ==
  [usd_total |-> Get(snap, "usd_total", 0),
   tokens    |-> Get(snap, "tokens", <<>>),
   positions |-> Get(snap, "positions", <<>>)]

\* ---------------------------------------------------------------- state file
\* The text json.dump writes for the state dict, as the sequence of pieces it
\* is written in: a write that stops early leaves a proper prefix of it.
\* Records are written in the order of AddrOrder.
AddrOrder == <<"a1", "b2">>

EncodeRecord(a, rec) ==
  << [t |-> "key", key |-> a],
     [t |-> "usd_total", num |-> rec.usd_total],
     [t |-> "tokens", toks |-> rec.tokens],
     [t |-> "positions", poss |-> rec.positions],
     [t |-> "end"] >>

RECURSIVE EncodeRecords(_, _)
EncodeRecords(st, order) ==
  IF order = <<>> THEN <<>>
  ELSE (IF Head(order) \in DOMAIN st THEN EncodeRecord(Head(order), st[Head(order)]) ELSE <<>>)
       \o EncodeRecords(st, Tail(order))

\* json.dump(state, f)
Encode(st) == <<[t |-> "open"]>> \o EncodeRecords(st, AddrOrder) \o <<[t |-> "close"]>>

\* the text is one complete JSON object of wallet records
WellFormed(d) ==
  /\ Len(d) >= 2
  /\ d[1].t = "open"
  /\ d[Len(d)].t = "close"
  /\ (Len(d) - 2) % 5 = 0
  /\ \A g \in 0..((Len(d) - 2) \div 5 - 1) :
       /\ d[5 * g + 2].t = "key"
       /\ d[5 * g + 3].t = "usd_total"
       /\ d[5 * g + 4].t = "tokens"
       /\ d[5 * g + 5].t = "positions"
       /\ d[5 * g + 6].t = "end"

\* the dict a complete text stands for
Decode(d) ==
  LET groups == 0..((Len(d) - 2) \div 5 - 1)
      keys   == {d[5 * g + 2].key : g \in groups}
      grp(k) == CHOOSE g \in groups : d[5 * g + 2].key = k
  IN [k \in keys |->
        [usd_total |-> d[5 * grp(k) + 3].num,
         tokens    |-> d[5 * grp(k) + 4].toks,
         positions |-> d[5 * grp(k) + 5].poss]]

\* A reader that accepts a text that stops early: every key it finds becomes a
\* record, with defaults for the fields that were not written.
ReadJsonLenient(file, dflt) ==
  IF ~file.exists THEN dflt
  ELSE LET d    == file.data
           ks   == {i \in 1..Len(d) : d[i].t = "key"}
           has(i, n, t) == i + n <= Len(d) /\ d[i + n].t = t
       IN [k \in {d[i].key : i \in ks} |->
             LET i == CHOOSE j \in ks : d[j].key = k
             IN [usd_total |-> IF has(i, 1, "usd_total") THEN d[i + 1].num ELSE 0,
                 tokens    |-> IF has(i, 2, "tokens") THEN d[i + 2].toks ELSE <<>>,
                 positions |-> IF has(i, 3, "positions") THEN d[i + 3].poss ELSE <<>>]]

\* _read_json(path, default): a missing file or a text json.load rejects
\* gives the default.
ReadJson(file, dflt) ==
  IF ~file.exists THEN dflt
  ELSE IF WellFormed(file.data) THEN Decode(file.data)
  ELSE dflt

\* _write_json(path, data) under disk outcome disk: "ok", "openfail" (open()
\* raises, the file is untouched) or "torn" (the write stops after disk.k
\* pieces of the truncated file). The exception is logged and swallowed.
WriteJson(file, st, disk) ==
  CASE disk.kind = "ok"       -> [exists |-> TRUE, data |-> Encode(st)]
    [] disk.kind = "openfail" -> file
    [] disk.kind = "torn"     ->
         LET full == Encode(st)
             k    == IF disk.k < Len(full) THEN disk.k ELSE Len(full) - 1
         IN [exists |-> TRUE, data |-> SubSeq(full, 1, k)]

\* ---------------------------------------------------------------- diff engine
\* Iteration order of the Python set S: fixed within one process by the
\* string hash seed, given here as a sequence seed of all symbols.
RECURSIVE SetOrder(_, _)
SetOrder(S, seed) ==
  IF seed = <<>> THEN <<>>
  ELSE (IF Head(seed) \in S THEN <<Head(seed)>> ELSE <<>>) \o SetOrder(S, Tail(seed))

Event(type, sym, side, old, new) ==
  [type |-> type, sym |-> sym, side |-> side, old |-> old, new |-> new]

\* for tok in now_tokens: if tok not in prev_tokens: "New token"
RECURSIVE NewTokenEvents(_, _)
NewTokenEvents(prev_tokens, now_tokens) ==
  IF now_tokens = <<>> THEN <<>>
  ELSE (IF Head(now_tokens).sym \notin Keys(prev_tokens)
        THEN <<Event("NEW", Head(now_tokens).sym, "", 0, Head(now_tokens).val)>>
        ELSE <<>>)
       \o NewTokenEvents(prev_tokens, Tail(now_tokens))

\* the BUY / SELL loop skipping a delta of exactly the noise threshold too
RECURSIVE DeltaEventsSkipEqual(_, _, _)
DeltaEventsSkipEqual(prev_tokens, now_tokens, order) ==
  IF order = <<>> THEN <<>>
  ELSE LET tok == Head(order)
           pv  == TokGet(prev_tokens, tok, 0)
           nv  == TokGet(now_tokens, tok, 0)
       IN (IF Abs(nv - pv) <= USD(1) THEN <<>>
           ELSE IF nv > pv THEN <<Event("BUY", tok, "", pv, nv)>>
           ELSE IF nv < pv THEN <<Event("SELL", tok, "", pv, nv)>>
           ELSE <<>>)
          \o DeltaEventsSkipEqual(prev_tokens, now_tokens, Tail(order))

\* for tok in set(prev_tokens) | set(now_tokens): BUY / SELL
RECURSIVE DeltaEvents(_, _, _)
DeltaEvents(prev_tokens, now_tokens, order) ==
  IF order = <<>> THEN <<>>
  ELSE LET tok == Head(order)
           pv  == TokGet(prev_tokens, tok, 0)
           nv  == TokGet(now_tokens, tok, 0)
       IN (IF Abs(nv - pv) < USD(1) THEN <<>>
           ELSE IF nv > pv THEN <<Event("BUY", tok, "", pv, nv)>>
           ELSE IF nv < pv THEN <<Event("SELL", tok, "", pv, nv)>>
           ELSE <<>>)
          \o DeltaEvents(prev_tokens, now_tokens, Tail(order))

\* the balance test with >= in place of >
BalanceEventsAtLeast(prev_total, now_total) ==
  IF Abs(now_total - prev_total) >= USD(5)
  THEN <<Event("BALANCE", "", "", prev_total, now_total)>>
  ELSE <<>>

\* if abs(now_total - prev_total) > 5
BalanceEvents(prev_total, now_total) ==
  IF Abs(now_total - prev_total) > USD(5)
  THEN <<Event("BALANCE", "", "", prev_total, now_total)>>
  ELSE <<>>

\* p["symbol"], p["side"] raise KeyError on a record without the key
HasKey(p) == "symbol" \in DOMAIN p /\ "side" \in DOMAIN p

\* positions keyed by symbol alone
SameKeySymbolOnly(p, q) == p.symbol = q.symbol

SameKey(p, q) == p.symbol = q.symbol /\ p.side = q.side

\* prev_map[key]: the dict comprehension keeps the last record of each key
PrevMapGet(prev_positions, p) ==
  LET idxs == {i \in 1..Len(prev_positions) : SameKey(prev_positions[i], p)}
  IN prev_positions[CHOOSE i \in idxs : \A j \in idxs : j <= i]

\* the growth test with >= in place of >
GrewAtLeast(new, old) == new * 100 >= old * 105

\* p["size_usd"] > old * 1.05, on integer magnitudes
Grew(new, old) == new * 100 > old * 105

\* for p in now_positions: OPEN / INCREASE
RECURSIVE OpenIncreaseEvents(_, _)
OpenIncreaseEvents(prev_positions, now_positions) ==
  IF now_positions = <<>> THEN <<>>
  ELSE LET p == Head(now_positions)
       IN (IF \A i \in 1..Len(prev_positions) : ~SameKey(prev_positions[i], p)
           THEN <<Event("OPEN", p.symbol, p.side, 0, p.size_usd)>>
           ELSE LET old == PrevMapGet(prev_positions, p).size_usd
                IN IF Grew(p.size_usd, old)
                   THEN <<Event("INCREASE", p.symbol, p.side, old, p.size_usd)>>
                   ELSE <<>>)
          \o OpenIncreaseEvents(prev_positions, Tail(now_positions))

\* for pp in prev_positions: CLOSE when no current position has its key
RECURSIVE CloseEvents(_, _)
CloseEvents(prev_positions, now_positions) ==
  IF prev_positions = <<>> THEN <<>>
  ELSE LET pp == Head(prev_positions)
       IN (IF \A i \in 1..Len(now_positions) : ~SameKey(now_positions[i], pp)
           THEN <<Event("CLOSE", pp.symbol, pp.side, pp.size_usd, 0)>>
           ELSE <<>>)
          \o CloseEvents(Tail(prev_positions), now_positions)

\* the diff with the balance stage ahead of the token stages
CompareAndGenerateEventsBalanceFirst(st, addr, snap, seed) ==
  LET prev           == GetWalletState(st, addr)
      prev_tokens    == Get(prev, "tokens", <<>>)
      now_tokens     == Get(snap, "tokens", <<>>)
      prev_positions == Get(prev, "positions", <<>>)
      now_positions  == Get(snap, "positions", <<>>)
      prev_total     == Get(prev, "usd_total", 0)
      now_total      == Get(snap, "usd_total", 0)
      keyed          == /\ \A i \in 1..Len(prev_positions) : HasKey(prev_positions[i])
                        /\ \A i \in 1..Len(now_positions) : HasKey(now_positions[i])
  IN IF ~keyed THEN [raised |-> TRUE, events |-> <<>>]
     ELSE [raised |-> FALSE,
           events |-> BalanceEvents(prev_total, now_total)
                      \o NewTokenEvents(prev_tokens, now_tokens)
                      \o DeltaEvents(prev_tokens, now_tokens,
                                     SetOrder(Keys(prev_tokens) \cup Keys(now_tokens), seed))
                      \o OpenIncreaseEvents(prev_positions, now_positions)
                      \o CloseEvents(prev_positions, now_positions)]

\* compare_and_generate_events(addr, snap) against the in-memory dict st;
\* raised = a KeyError left the function (no event list is returned).
CompareAndGenerateEvents(st, addr, snap, seed) ==
  LET prev           == GetWalletState(st, addr)
      prev_tokens    == Get(prev, "tokens", <<>>)
      now_tokens     == Get(snap, "tokens", <<>>)
      prev_positions == Get(prev, "positions", <<>>)
      now_positions  == Get(snap, "positions", <<>>)
      prev_total     == Get(prev, "usd_total", 0)
      now_total      == Get(snap, "usd_total", 0)
      keyed          == /\ \A i \in 1..Len(prev_positions) : HasKey(prev_positions[i])
                        /\ \A i \in 1..Len(now_positions) : HasKey(now_positions[i])
  IN IF ~keyed THEN [raised |-> TRUE, events |-> <<>>]
     ELSE [raised |-> FALSE,
           events |-> NewTokenEvents(prev_tokens, now_tokens)
                      \o DeltaEvents(prev_tokens, now_tokens,
                                     SetOrder(Keys(prev_tokens) \cup Keys(now_tokens), seed))
                      \o BalanceEvents(prev_total, now_total)
                      \o OpenIncreaseEvents(prev_positions, now_positions)
                      \o CloseEvents(prev_positions, now_positions)]

\* ---------------------------------------------------------------- inputs
\* the request raised (connection error, timeout)
NetErr == [err |-> TRUE, ok |-> FALSE, json |-> FALSE, data |-> <<>>]

\* a response arrived
Http(ok, json, data) == [err |-> FALSE, ok |-> ok, json |-> json, data |-> data]

\* GET /api/exchange/assets: error, 403 with a JSON error body, 200 with an
\* unparsable body, 200 with holdings
AssetsResponses ==
  { NetErr,
    Http(FALSE, TRUE, <<>>),
    Http(TRUE, FALSE, <<>>),
    Http(TRUE, TRUE, <<[symbol |-> "BTC", balance_usd |-> 100]>>),
    Http(TRUE, TRUE, <<[symbol |-> "BTC", balance_usd |-> 250],
                       [symbol |-> "ETH", balance_usd |-> 40]>>) }

\* GET /api/hyperliquid/position
PositionsResponses ==
  { NetErr,
    Http(FALSE, TRUE, <<>>),
    Http(TRUE, TRUE, <<[symbol |-> "AAA", position_value_usd |-> 500, position_size |-> 2]>>),
    Http(TRUE, TRUE, <<[symbol |-> "AAA", position_value_usd |-> 100, position_size |-> 1],
                       [symbol |-> "AAA", position_value_usd |-> 50, position_size |-> 1]>>),
    Http(TRUE, TRUE, <<[symbol |-> "AAA", position_value_usd |-> -500, position_size |-> -2],
                       [symbol |-> "BBB", position_value_usd |-> 5, position_size |-> 1]>>) }

\* GET debank total_balance: a non-2xx answer with a JSON error body parses
\* to a payload without data (total 0, no assets)
DebankResponses ==
  { NetErr,
    Http(FALSE, TRUE, [total_usd_value |-> 0, wallet_asset_list |-> <<>>]),
    Http(TRUE, FALSE, [total_usd_value |-> 0, wallet_asset_list |-> <<>>]),
    Http(TRUE, TRUE, [total_usd_value |-> 1000,
                      wallet_asset_list |-> <<[symbol |-> "BTC", price |-> 50, amount |-> 2]>>]) }

\* GET dexscreener search
DexResponses ==
  { NetErr,
    Http(TRUE, TRUE, <<>>),
    Http(TRUE, TRUE, <<[symbol |-> "ETH", liquidity |-> 40],
                       [symbol |-> "ETH", liquidity |-> 5]>>) }

\* GET hyperdash trader page
HyperResponses ==
  { NetErr,
    Http(FALSE, TRUE, <<>>),
    Http(TRUE, TRUE, <<[symbol |-> "AAA", notional |-> 5, isLong |-> TRUE]>>),
    Http(TRUE, TRUE, <<[symbol |-> "AAA", notional |-> 500, isLong |-> TRUE]>>) }

\* every combination of the five exchanges of one resolve
AllWorlds ==
  [assets : AssetsResponses, positions : PositionsResponses, debank : DebankResponses,
   dex : DexResponses, hyper : HyperResponses]

World(a, p, d, x, h) == [assets |-> a, positions |-> p, debank |-> d, dex |-> x, hyper |-> h]

\* the worlds the poller meets: every source down; every source answering
\* 403; holdings at coinglass and debank; only dexscreener; only hyperdash
Worlds ==
  { World(NetErr, NetErr, NetErr, NetErr, NetErr),
    World(Http(FALSE, TRUE, <<>>), Http(FALSE, TRUE, <<>>),
          Http(FALSE, TRUE, [total_usd_value |-> 0, wallet_asset_list |-> <<>>]),
          Http(TRUE, TRUE, <<>>), Http(FALSE, TRUE, <<>>)),
    World(Http(TRUE, TRUE, <<[symbol |-> "BTC", balance_usd |-> 100]>>),
          Http(TRUE, TRUE, <<[symbol |-> "AAA", position_value_usd |-> 100, position_size |-> 1],
                             [symbol |-> "AAA", position_value_usd |-> 50, position_size |-> 1]>>),
          Http(TRUE, TRUE, [total_usd_value |-> 1000,
                            wallet_asset_list |-> <<[symbol |-> "BTC", price |-> 50, amount |-> 2]>>]),
          NetErr, NetErr),
    World(NetErr, NetErr, Http(TRUE, FALSE, [total_usd_value |-> 0, wallet_asset_list |-> <<>>]),
          Http(TRUE, TRUE, <<[symbol |-> "ETH", liquidity |-> 40],
                             [symbol |-> "ETH", liquidity |-> 5]>>),
          NetErr),
    World(NetErr, NetErr, NetErr, Http(TRUE, TRUE, <<>>),
          Http(TRUE, TRUE, <<[symbol |-> "AAA", notional |-> 500, isLong |-> TRUE]>>)) }

\* string hash seeds of a process: the iteration orders of a set of symbols
Seeds == { <<"BTC", "ETH">>, <<"ETH", "BTC">> }

\* largest number of pieces a failing write leaves in the state file
MaxTear == 5

\* the write of state.json goes through
DiskOk == [kind |-> "ok", k |-> 0]

\* outcomes of a write on a disk that can fail
DiskOutcomes == { DiskOk, [kind |-> "openfail", k |-> 0] }

\* wallets.json as found at start
InitWalletFiles == { <<"A1", "b2">> }

\* a record of an older state file whose position has no symbol
LegacyMap ==
  [a \in {"a1"} |->
     [usd_total |-> 0, tokens |-> <<>>,
      positions |-> <<[side |-> "long", size_usd |-> 500]>>]]

NoFile == [exists |-> FALSE, data |-> <<>>]

\* authorized_chats.json as found at start: one chat has sent /start
InitChats == {7}

\* state.json as found at start: missing, or left by an older version
InitStateFiles == { NoFile, [exists |-> TRUE, data |-> Encode(LegacyMap)] }

\* ---------------------------------------------------------------- state
VARIABLES
  key,          \* COINGLASS_API_KEY is set
  seed,         \* set iteration order of this process
  walletsFile,  \* wallets.json: the addresses as written
  authorized_chats, \* the set authorized_chats (and its file)
  stateFile,    \* state.json: [exists, data]
  state,        \* the in-memory dict `state`
  pc,           \* poller_thread position: "load", "loop", "sleep", "dead"; "down" = no process
  wallets,      \* the list load_wallets() returned for this cycle
  idx,          \* position of the for loop in wallets
  attempted,    \* addresses process_wallet_sync was called for in this cycle
  failed,       \* addresses whose process_wallet_sync raised in this cycle
  durable,      \* the dict of the last write of state.json that completed
  last,         \* what the latest step did
  probe,        \* resolver check: the inputs of one resolve
  answer,       \* resolver check: its outcome
  variant,      \* the program of the repository that runs: "bot" is the hyperdash bot
  db,           \* wallet_store: the rows of the table wallets
  lastCmd,      \* what the latest watch-list command of main.py / telegram_commands did
  chain,        \* Solana: number of the latest signature of each wallet (0 = none)
  last_signatures, \* Solana monitors: the dict last_signatures (last_seen_signature)
  fetches,      \* Solana: [gets, rounds] per wallet for its present latest signature
  lastSol       \* what the latest step of a Solana monitor did

vars == <<key, seed, walletsFile, authorized_chats, stateFile, state, pc, wallets, idx, attempted, failed,
          durable, last, probe, answer,
          variant, db, lastCmd, chain, last_signatures, fetches, lastSol>>

\* the variables of the other programs of the repository
otherVars == <<variant, db, lastCmd, chain, last_signatures, fetches, lastSol>>

NoStep ==
  [op |-> "none", addr |-> "", prev |-> EmptyState, snap |-> None, raised |-> FALSE,
   events |-> <<>>, sent |-> <<>>, wrote |-> FALSE, persisted |-> FALSE]

NoCmd == [op |-> "none", addr |-> "", had |-> FALSE, reply |-> ""]

NoSol ==
  [op |-> "none", wallet |-> "", sig |-> 0, seen |-> 0, fetched |-> FALSE, tx |-> None,
   alerts |-> <<>>, raised |-> FALSE]

\* the hyperdash bot runs; no other program of the repository does
BotOnly ==
  /\ variant = "bot"
  /\ db = <<>>
  /\ lastCmd = NoCmd
  /\ chain = EmptyMap
  /\ last_signatures = EmptyMap
  /\ fetches = EmptyMap
  /\ lastSol = NoSol

NoProbe == [key |-> FALSE, world |-> World(NetErr, NetErr, NetErr, NetErr, NetErr), fault |-> 0]

NoAnswer == [done |-> FALSE, result |-> None, consulted |-> <<>>]

\* ---------------------------------------------------------------- poller
\* set_wallet_state(addr, snap): assign, then save_state()
SetWalletState(st, file, addr, rec, disk) ==
  LET st2 == AssignState(st, addr, rec)
  IN [state |-> st2, file |-> WriteJson(file, st2, disk)]

\* process_wallet_sync storing the snapshot ahead of the diff
ProcessSnapshotStoreFirst(st, file, addr, snap, sd, disk) ==
  LET d    == CompareAndGenerateEvents(st, addr, snap, sd)
      w    == SetWalletState(st, file, addr, NewState(snap), disk)
      base == [op |-> "poll", addr |-> addr, prev |-> GetWalletState(st, addr), snap |-> snap,
               raised |-> d.raised, events |-> d.events, sent |-> d.events, wrote |-> TRUE,
               persisted |-> (disk.kind = "ok")]
  IN [state |-> w.state, file |-> w.file, step |-> base]

\* process_wallet_sync from the diff on, for a snapshot snap
ProcessSnapshot(st, file, addr, snap, sd, disk) ==
  LET d    == CompareAndGenerateEvents(st, addr, snap, sd)
      w    == SetWalletState(st, file, addr, NewState(snap), disk)
      base == [op |-> "poll", addr |-> addr, prev |-> GetWalletState(st, addr), snap |-> snap,
               raised |-> FALSE, events |-> <<>>, sent |-> <<>>, wrote |-> FALSE,
               persisted |-> FALSE]
  IN IF d.raised
     THEN [state |-> st, file |-> file, step |-> [base EXCEPT !.raised = TRUE]]
     ELSE [state |-> w.state, file |-> w.file,
           step |-> [base EXCEPT !.events = d.events, !.sent = d.events, !.wrote = TRUE,
                                 !.persisted = (disk.kind = "ok")]]

ProcessWalletSyncNoSkip(st, file, addr, k, w, sd, disk) ==
  ProcessSnapshot(st, file, addr, DetectAndBuildSnapshots(addr, k, w, 0).result, sd, disk)

\* process_wallet_sync returning also on a snapshot without tokens and positions
ProcessWalletSyncSkipEmpty(st, file, addr, k, w, sd, disk) ==
  LET snap == DetectAndBuildSnapshots(addr, k, w, 0).result
  IN IF ~Truthy(snap)
        \/ (Get(snap, "tokens", <<>>) = <<>> /\ Get(snap, "positions", <<>>) = <<>>)
     THEN [state |-> st, file |-> file,
           step |-> [NoStep EXCEPT !.op = "poll", !.addr = addr, !.snap = snap,
                                   !.prev = GetWalletState(st, addr)]]
     ELSE ProcessSnapshot(st, file, addr, snap, sd, disk)

\* process_wallet_sync(addr): resolve, return when there is no snapshot,
\* diff, store, send every event
ProcessWalletSync(st, file, addr, k, w, sd, disk) ==
  LET snap == DetectAndBuildSnapshots(addr, k, w, 0).result
  IN IF ~Truthy(snap)
     THEN [state |-> st, file |-> file,
           step |-> [NoStep EXCEPT !.op = "poll", !.addr = addr, !.snap = snap,
                                   !.prev = GetWalletState(st, addr)]]
     ELSE ProcessSnapshot(st, file, addr, snap, sd, disk)

Init ==
  /\ BotOnly
  /\ key \in BOOLEAN
  /\ seed \in Seeds
  /\ walletsFile \in InitWalletFiles
  /\ authorized_chats = InitChats
  /\ stateFile \in InitStateFiles
  /\ state = ReadJson(stateFile, EmptyMap)
  /\ durable = ReadJson(stateFile, EmptyMap)
  /\ pc = "load"
  /\ wallets = <<>>
  /\ idx = 1
  /\ attempted = <<>>
  /\ failed = <<>>
  /\ last = NoStep
  /\ probe = NoProbe
  /\ answer = NoAnswer

\* wallets = load_wallets(): the file's addresses, lowercased
LoadWallets ==
  /\ pc = "load"
  /\ wallets' = [i \in 1..Len(walletsFile) |-> Lower(walletsFile[i])]
  /\ idx' = 1
  /\ attempted' = <<>>
  /\ failed' = <<>>
  /\ pc' = "loop"
  /\ last' = [NoStep EXCEPT !.op = "load"]
  /\ UNCHANGED otherVars
  /\ UNCHANGED <<key, seed, walletsFile, authorized_chats, stateFile, state, durable, probe, answer>>

PollWalletNoCatch ==
  /\ pc = "loop"
  /\ idx <= Len(wallets)
  /\ \E w \in Worlds, disk \in DiskOutcomes :
       LET r == ProcessWalletSync(state, stateFile, wallets[idx], key, w, seed, disk)
       IN /\ state' = r.state
          /\ stateFile' = r.file
          /\ last' = r.step
          /\ durable' = IF r.step.persisted THEN r.state ELSE durable
          /\ failed' = IF r.step.raised THEN Append(failed, wallets[idx]) ELSE failed
          /\ pc' = IF r.step.raised THEN "dead" ELSE "loop"
  /\ idx' = idx + 1
  /\ attempted' = Append(attempted, wallets[idx])
  /\ UNCHANGED otherVars
  /\ UNCHANGED <<key, seed, walletsFile, authorized_chats, wallets, probe, answer>>

\* one iteration of `for w in wallets: try: process_wallet_sync(w) except Exception`;
\* the write of state.json goes through or fails
PollWallet ==
  /\ pc = "loop"
  /\ idx <= Len(wallets)
  /\ \E w \in Worlds, disk \in DiskOutcomes :
       LET r == ProcessWalletSync(state, stateFile, wallets[idx], key, w, seed, disk)
       IN /\ state' = r.state
          /\ stateFile' = r.file
          /\ last' = r.step
          /\ durable' = IF r.step.persisted THEN r.state ELSE durable
          /\ failed' = IF r.step.raised THEN Append(failed, wallets[idx]) ELSE failed
  /\ idx' = idx + 1
  /\ attempted' = Append(attempted, wallets[idx])
  /\ pc' = "loop"
  /\ UNCHANGED otherVars
  /\ UNCHANGED <<key, seed, walletsFile, authorized_chats, wallets, probe, answer>>

\* the for loop is through: time.sleep(POLL_INTERVAL) begins
EndCycle ==
  /\ pc = "loop"
  /\ idx > Len(wallets)
  /\ pc' = "sleep"
  /\ last' = [NoStep EXCEPT !.op = "endcycle"]
  /\ UNCHANGED otherVars
  /\ UNCHANGED <<key, seed, walletsFile, authorized_chats, stateFile, state, wallets, idx, attempted, failed,
                 durable, probe, answer>>

\* the sleep returns: next turn of `while True`
Sleep ==
  /\ pc = "sleep"
  /\ pc' = "load"
  /\ last' = [NoStep EXCEPT !.op = "sleep"]
  /\ UNCHANGED otherVars
  /\ UNCHANGED <<key, seed, walletsFile, authorized_chats, stateFile, state, wallets, idx, attempted, failed,
                 durable, probe, answer>>

\* the process dies inside the write of set_wallet_state: the file was
\* truncated by open(path, "w") and holds the first k pieces of the new text
CrashInWrite ==
  /\ pc = "loop"
  /\ idx <= Len(wallets)
  /\ \E w \in Worlds, k \in 0..MaxTear :
       LET r == ProcessWalletSync(state, stateFile, wallets[idx], key, w, seed,
                                  [kind |-> "torn", k |-> k])
       IN /\ r.step.wrote
          /\ stateFile' = r.file
          /\ last' = [r.step EXCEPT !.op = "crash", !.sent = <<>>]
  /\ state' = EmptyMap
  /\ pc' = "down"
  /\ wallets' = <<>>
  /\ idx' = 1
  /\ attempted' = <<>>
  /\ failed' = <<>>
  /\ UNCHANGED otherVars
  /\ UNCHANGED <<key, seed, walletsFile, authorized_chats, durable, probe, answer>>

\* the module is loaded again: state = _read_json(STATE_FILE, {})
Restart ==
  /\ pc = "down"
  /\ state' = ReadJson(stateFile, EmptyMap)
  /\ seed' \in Seeds
  /\ pc' = "load"
  /\ last' = [NoStep EXCEPT !.op = "restart"]
  /\ UNCHANGED otherVars
  /\ UNCHANGED <<key, walletsFile, authorized_chats, stateFile, wallets, idx, attempted, failed, durable,
                 probe, answer>>

\* the process is killed while no write is under way
Kill ==
  /\ pc \in {"load", "loop", "sleep"}
  /\ state' = EmptyMap
  /\ pc' = "down"
  /\ wallets' = <<>>
  /\ idx' = 1
  /\ attempted' = <<>>
  /\ failed' = <<>>
  /\ last' = [NoStep EXCEPT !.op = "kill"]
  /\ UNCHANGED otherVars
  /\ UNCHANGED <<key, seed, walletsFile, authorized_chats, stateFile, durable, probe, answer>>

\* the poller watching two addresses
Next == LoadWallets \/ PollWallet \/ EndCycle \/ Sleep

Spec == Init /\ [][Next]_vars

\* the poller with crashes and restarts, watching one address
InitDisk ==
  /\ BotOnly
  /\ key \in BOOLEAN
  /\ seed \in Seeds
  /\ walletsFile = <<"A1">>
  /\ authorized_chats = InitChats
  /\ stateFile \in InitStateFiles
  /\ state = ReadJson(stateFile, EmptyMap)
  /\ durable = ReadJson(stateFile, EmptyMap)
  /\ pc = "load"
  /\ wallets = <<>>
  /\ idx = 1
  /\ attempted = <<>>
  /\ failed = <<>>
  /\ last = NoStep
  /\ probe = NoProbe
  /\ answer = NoAnswer

NextDisk == LoadWallets \/ PollWallet \/ EndCycle \/ Sleep \/ CrashInWrite \/ Kill \/ Restart

SpecDisk == InitDisk /\ [][NextDisk]_vars

\* ---------------------------------------------------------------- resolver check
\* One resolve over every combination of exchanges, API key and faulting fetcher.
InitResolve ==
  /\ BotOnly
  /\ probe \in [key : BOOLEAN, world : AllWorlds, fault : 0..4]
  /\ answer = NoAnswer
  /\ key = probe.key
  /\ seed = <<"BTC", "ETH">>
  /\ walletsFile = <<>>
  /\ authorized_chats = {}
  /\ stateFile = NoFile
  /\ state = EmptyMap
  /\ durable = EmptyMap
  /\ pc = "load"
  /\ wallets = <<>>
  /\ idx = 1
  /\ attempted = <<>>
  /\ failed = <<>>
  /\ last = NoStep

\* snap = detect_and_build_snapshots(addr)
DoResolve ==
  /\ ~answer.done
  /\ LET r == DetectAndBuildSnapshots("a1", probe.key, probe.world, probe.fault)
     IN answer' = [done |-> TRUE, result |-> r.result, consulted |-> r.consulted]
  /\ UNCHANGED otherVars
  /\ UNCHANGED <<key, seed, walletsFile, authorized_chats, stateFile, state, pc, wallets, idx, attempted, failed,
                 durable, last, probe>>

NextResolve == DoResolve

SpecResolve == InitResolve /\ [][NextResolve]_vars

\* ---------------------------------------------------------------- commands
\* the chats commands come from, and the argument lists they carry
CmdChats == {7}
CmdArgs == { <<>>, <<"A1">>, <<"a1">> }

\* load_wallets() on the wallets file
LoadedWallets(file) == [i \in 1..Len(file) |-> Lower(file[i])]

\* wallets.remove(addr): drops the first occurrence
RECURSIVE RemoveFirst(_, _)
RemoveFirst(ws, addr) ==
  IF ws = <<>> THEN <<>>
  ELSE IF Head(ws) = addr THEN Tail(ws)
  ELSE <<Head(ws)>> \o RemoveFirst(Tail(ws), addr)

\* an on-demand lookup that stores what it resolved
OnDemandLookupStore(st, file, addr, k, w) ==
  LET snap == DetectAndBuildSnapshots(addr, k, w, 0).result
      wr   == SetWalletState(st, file, addr, NewState(snap), DiskOk)
  IN IF Truthy(snap)
     THEN [state |-> wr.state, file |-> wr.file, snap |-> snap]
     ELSE [state |-> st, file |-> file, snap |-> snap]

\* snap = detect_and_build_snapshots(addr) in a command handler, then
\* send_message_sync(chat_id, ...): the dict state and state.json as they are after it
OnDemandLookup(st, file, addr, k, w) ==
  [state |-> st, file |-> file, snap |-> DetectAndBuildSnapshots(addr, k, w, 0).result]

\* /add <address>; saved = the write of wallets.json went through
CmdAdd ==
  /\ variant = "bot"
  /\ pc # "down"
  /\ \E chat \in CmdChats, args \in CmdArgs, w \in Worlds, saved \in BOOLEAN :
       /\ authorized_chats' = authorized_chats \cup {chat}
       /\ IF args = <<>>
          THEN /\ UNCHANGED <<walletsFile, state, stateFile>>
               /\ last' = [NoStep EXCEPT !.op = "add"]
          ELSE LET addr == Lower(args[1])
                   ws   == LoadedWallets(walletsFile)
               IN IF \E i \in 1..Len(ws) : ws[i] = addr
                  THEN /\ UNCHANGED <<walletsFile, state, stateFile>>
                       /\ last' = [NoStep EXCEPT !.op = "add", !.addr = addr]
                  ELSE LET r == OnDemandLookup(state, stateFile, addr, key, w)
                       IN /\ walletsFile' = IF saved THEN Append(ws, addr) ELSE walletsFile
                          /\ state' = r.state
                          /\ stateFile' = r.file
                          /\ last' = [NoStep EXCEPT !.op = "add", !.addr = addr,
                                                    !.prev = GetWalletState(state, addr),
                                                    !.snap = r.snap]
  /\ UNCHANGED otherVars
  /\ UNCHANGED <<key, seed, pc, wallets, idx, attempted, failed, durable, probe, answer>>

\* /remove <address>
CmdRemove ==
  /\ variant = "bot"
  /\ pc # "down"
  /\ \E chat \in CmdChats, args \in CmdArgs, saved \in BOOLEAN :
       /\ authorized_chats' = authorized_chats \cup {chat}
       /\ IF args = <<>>
          THEN /\ UNCHANGED walletsFile
               /\ last' = [NoStep EXCEPT !.op = "remove"]
          ELSE LET addr == Lower(args[1])
                   ws   == LoadedWallets(walletsFile)
               IN /\ walletsFile' = IF saved /\ \E i \in 1..Len(ws) : ws[i] = addr
                                    THEN RemoveFirst(ws, addr)
                                    ELSE walletsFile
                  /\ last' = [NoStep EXCEPT !.op = "remove", !.addr = addr]
  /\ UNCHANGED otherVars
  /\ UNCHANGED <<key, seed, stateFile, state, pc, wallets, idx, attempted, failed, durable,
                 probe, answer>>

\* /debug <address>
CmdDebug ==
  /\ pc # "down"
  /\ \E chat \in CmdChats, args \in CmdArgs, w \in Worlds :
       /\ authorized_chats' = authorized_chats \cup {chat}
       /\ IF args = <<>>
          THEN /\ UNCHANGED <<state, stateFile>>
               /\ last' = [NoStep EXCEPT !.op = "debug"]
          ELSE LET addr == Lower(args[1])
                   r    == OnDemandLookup(state, stateFile, addr, key, w)
               IN /\ state' = r.state
                  /\ stateFile' = r.file
                  /\ last' = [NoStep EXCEPT !.op = "debug", !.addr = addr,
                                            !.prev = GetWalletState(state, addr),
                                            !.snap = r.snap]
  /\ UNCHANGED otherVars
  /\ UNCHANGED <<key, seed, walletsFile, pc, wallets, idx, attempted, failed, durable,
                 probe, answer>>

\* the bot started with no wallet, no chat and no state file
InitCmd ==
  /\ BotOnly
  /\ key \in BOOLEAN
  /\ seed = <<"BTC", "ETH">>
  /\ walletsFile = <<>>
  /\ authorized_chats = {}
  /\ stateFile = NoFile
  /\ state = EmptyMap
  /\ durable = EmptyMap
  /\ pc = "load"
  /\ wallets = <<>>
  /\ idx = 1
  /\ attempted = <<>>
  /\ failed = <<>>
  /\ last = NoStep
  /\ probe = NoProbe
  /\ answer = NoAnswer

\* the poller and the command handlers side by side
NextCmd == LoadWallets \/ PollWallet \/ EndCycle \/ Sleep \/ CmdAdd \/ CmdRemove \/ CmdDebug

SpecCmd == InitCmd /\ [][NextCmd]_vars

\* ---------------------------------------------------------------- watch-lists
\* the argument lists of the commands of main.py and telegram_commands.py
ListArgs == { <<>>, <<"A1">>, <<"a1">>, <<"b2">> }

\* the elements of a list
Elems(ws) == {ws[i] : i \in 1..Len(ws)}

\* main.add_wallet(addr) on the list load_wallets() returned; saved = the
\* write of save_wallets went through (it raises otherwise)
MainAddWallet(file, addr, saved) ==
  IF addr \notin Elems(file)
  THEN IF saved THEN [file |-> Append(file, addr), raised |-> FALSE, result |-> TRUE]
       ELSE [file |-> file, raised |-> TRUE, result |-> FALSE]
  ELSE [file |-> file, raised |-> FALSE, result |-> FALSE]

\* main.cmd_add: /add <address> of main.py
MainCmdAdd ==
  /\ variant = "main"
  /\ \E args \in ListArgs, saved \in BOOLEAN :
       IF args = <<>>
       THEN /\ lastCmd' = [NoCmd EXCEPT !.op = "add", !.reply = "usage"]
            /\ UNCHANGED walletsFile
       ELSE LET addr == Lower(args[1])
                r    == MainAddWallet(walletsFile, addr, saved)
            IN /\ walletsFile' = r.file
               /\ lastCmd' = [op |-> "add", addr |-> addr, had |-> addr \in Elems(walletsFile),
                              reply |-> IF r.raised THEN ""
                                        ELSE IF r.result THEN "added" ELSE "exists"]
  /\ UNCHANGED <<key, seed, authorized_chats, stateFile, state, pc, wallets, idx, attempted,
                 failed, durable, last, probe, answer>>
  /\ UNCHANGED <<variant, db, chain, last_signatures, fetches, lastSol>>

\* an INSERT that adds the row whatever the table holds
SqlInsert(rows, address, label) == Append(rows, [address |-> address, label |-> label])

\* INSERT OR IGNORE INTO wallets VALUES (?, ?), address being the primary key
SqlInsertOrIgnore(rows, address, label) ==
  IF \E i \in 1..Len(rows) : rows[i].address = address
  THEN rows
  ELSE Append(rows, [address |-> address, label |-> label])

\* DELETE FROM wallets WHERE address = ?
SqlDelete(rows, address) == SelectSeq(rows, LAMBDA r : r.address # address)

\* wallet_store.add_wallet(address): the function has no return statement
StoreAddWallet(rows, address) ==
  [rows |-> SqlInsertOrIgnore(rows, address, ""), result |-> None]

\* wallet_store.remove_wallet(address): no return statement either
StoreRemoveWallet(rows, address) ==
  [rows |-> SqlDelete(rows, address), result |-> None]

\* telegram_commands.addwallet: /addwallet <address>
AddWallet ==
  /\ variant = "store"
  /\ \E args \in ListArgs :
       IF args = <<>>
       THEN /\ lastCmd' = [NoCmd EXCEPT !.op = "addwallet", !.reply = "usage"]
            /\ UNCHANGED db
       ELSE LET r == StoreAddWallet(db, args[1])
            IN /\ db' = r.rows
               /\ lastCmd' = [op |-> "addwallet", addr |-> args[1],
                              had |-> \E i \in 1..Len(db) : db[i].address = args[1],
                              reply |-> IF Truthy(r.result) THEN "added" ELSE "exists"]
  /\ UNCHANGED <<key, seed, walletsFile, authorized_chats, stateFile, state, pc, wallets, idx,
                 attempted, failed, durable, last, probe, answer>>
  /\ UNCHANGED <<variant, chain, last_signatures, fetches, lastSol>>

\* telegram_commands.removewallet: /removewallet <address>
RemoveWallet ==
  /\ variant = "store"
  /\ \E args \in ListArgs :
       IF args = <<>>
       THEN /\ lastCmd' = [NoCmd EXCEPT !.op = "removewallet", !.reply = "usage"]
            /\ UNCHANGED db
       ELSE LET r == StoreRemoveWallet(db, args[1])
            IN /\ db' = r.rows
               /\ lastCmd' = [op |-> "removewallet", addr |-> args[1],
                              had |-> \E i \in 1..Len(db) : db[i].address = args[1],
                              reply |-> IF Truthy(r.result) THEN "removed" ELSE "notfound"]
  /\ UNCHANGED <<key, seed, walletsFile, authorized_chats, stateFile, state, pc, wallets, idx,
                 attempted, failed, durable, last, probe, answer>>
  /\ UNCHANGED <<variant, chain, last_signatures, fetches, lastSol>>

\* one of the three programs with a watch-list starts with an empty list
InitLists ==
  /\ variant \in {"bot", "main", "store"}
  /\ db = <<>>
  /\ lastCmd = NoCmd
  /\ chain = EmptyMap
  /\ last_signatures = EmptyMap
  /\ fetches = EmptyMap
  /\ lastSol = NoSol
  /\ key = TRUE
  /\ seed = <<"BTC", "ETH">>
  /\ walletsFile = <<>>
  /\ authorized_chats = {}
  /\ stateFile = NoFile
  /\ state = EmptyMap
  /\ durable = EmptyMap
  /\ pc = "load"
  /\ wallets = <<>>
  /\ idx = 1
  /\ attempted = <<>>
  /\ failed = <<>>
  /\ last = NoStep
  /\ probe = NoProbe
  /\ answer = NoAnswer

\* the add and remove commands of the three watch-lists
NextLists == CmdAdd \/ CmdRemove \/ MainCmdAdd \/ AddWallet \/ RemoveWallet

SpecLists == InitLists /\ [][NextLists]_vars

\* ---------------------------------------------------------------- solana monitors
\* MIN_SOL of solana_monitor.py and of solana_trade_monitor.py, in SOL
MONITOR_MIN_SOL == 50
TRADE_MIN_SOL == 1

\* how many units of balance make one SOL (1e9 lamports in the source)
PerSol == 2

\* the balance of x SOL
SOL(x) == x * PerSol

\* the wallets the callable wallets() returns
SolWallets == <<"w1", "w2">>

\* the largest signature number a wallet reaches
MaxSig == 2

\* an RPC call: raised = requests.post or r.json() raised; result = the
\* value of the key "result"
Rpc(raised, result) == [raised |-> raised, result |-> result]

\* meta of a transaction: balances of the first account, token balances
Meta(pre, post, preTok, postTok) ==
  [preBalances |-> pre, postBalances |-> post,
   preTokenBalances |-> preTok, postTokenBalances |-> postTok]

Tok(mint, amt) == [mint |-> mint, uiAmount |-> amt]

\* what getTransaction can answer
TxOutcomes ==
  { Rpc(TRUE, None),
    Rpc(FALSE, None),
    Rpc(FALSE, [meta |-> None]),
    \* SOL spent, token received
    Rpc(FALSE, [meta |-> Meta(SOL(10), SOL(8), <<>>, <<Tok("M", 100)>>)]),
    \* SOL received, token given
    Rpc(FALSE, [meta |-> Meta(SOL(8), SOL(10), <<Tok("M", 100)>>, <<Tok("M", 0)>>)]),
    \* SOL and token both received
    Rpc(FALSE, [meta |-> Meta(SOL(8), SOL(10), <<>>, <<Tok("M", 100)>>)]),
    \* SOL and token both given; a second token unchanged
    Rpc(FALSE, [meta |-> Meta(SOL(10), SOL(8), <<Tok("M", 100), Tok("N", 5)>>,
                              <<Tok("M", 40), Tok("N", 5)>>)]),
    \* less than MIN_SOL moved
    Rpc(FALSE, [meta |-> Meta(SOL(10), SOL(10) - 1, <<>>, <<Tok("M", 100)>>)]),
    \* a whale transfer, two tokens received
    Rpc(FALSE, [meta |-> Meta(SOL(40), SOL(100), <<>>, <<Tok("M", 100), Tok("N", 5)>>)]),
    Rpc(FALSE, [meta |-> Meta(SOL(100), SOL(40), <<>>, <<>>)]) }

\* what getSignaturesForAddress can answer for a wallet whose latest signature is n
SigOutcomes(n) ==
  { Rpc(TRUE, <<>>), Rpc(FALSE, <<>>) } \cup (IF n > 0 THEN {Rpc(FALSE, <<n>>)} ELSE {})

\* {t["mint"]: float(t["uiTokenAmount"]["uiAmount"] or 0) for t in ...}
RECURSIVE MintDict(_, _)
MintDict(items, acc) ==
  IF items = <<>> THEN acc
  ELSE LET t == Head(items)
       IN MintDict(Tail(items),
            IF t.mint \in Keys(acc)
            THEN [i \in 1..Len(acc) |->
                    IF acc[i].sym = t.mint THEN [sym |-> t.mint, val |-> t.uiAmount] ELSE acc[i]]
            ELSE Append(acc, [sym |-> t.mint, val |-> t.uiAmount]))

\* for mint, post_amt in post_tokens.items(): the label of each movement
RECURSIVE TradeLabels(_, _, _)
TradeLabels(post_items, pre_tokens, sol_change) ==
  IF post_items = <<>> THEN <<>>
  ELSE LET mint == Head(post_items).sym
           diff == Head(post_items).val - TokGet(pre_tokens, mint, 0)
       IN (IF diff = 0 THEN <<>>
           ELSE IF sol_change > 0 /\ diff < 0 THEN <<[action |-> "SELL", mint |-> mint]>>
           ELSE IF sol_change < 0 /\ diff > 0 THEN <<[action |-> "BUY", mint |-> mint]>>
           ELSE <<>>)
          \o TradeLabels(Tail(post_items), pre_tokens, sol_change)

\* the alerts solana_trade_monitor builds from meta, lines 51-80
TradeAlerts(meta) ==
  LET sol_change == meta.preBalances - meta.postBalances
  IN IF Abs(sol_change) < SOL(TRADE_MIN_SOL) THEN <<>>
     ELSE TradeLabels(MintDict(meta.postTokenBalances, <<>>),
                      MintDict(meta.preTokenBalances, <<>>), sol_change)

\* await bot.send_message for each alert in turn; the send of alert number
\* fail raises (0 = none does) and ends the sending
Deliver(alerts, fail) ==
  [i \in 1..(IF fail \in 1..Len(alerts) THEN fail ELSE Len(alerts)) |->
     [action |-> alerts[i].action, mint |-> alerts[i].mint, ok |-> i # fail]]

\* what a step of a monitor did
SolStep(op, wallet, sig, seen, fetched, tx, alerts, raised) ==
  [op |-> op, wallet |-> wallet, sig |-> sig, seen |-> seen, fetched |-> fetched, tx |-> tx,
   alerts |-> alerts, raised |-> raised]

\* last_signatures[wallet] = sig
Record(ls, wallet, sig) ==
  [a \in DOMAIN ls \cup {wallet} |-> IF a = wallet THEN sig ELSE ls[a]]

\* the try body of solana_monitor.monitor for one wallet
MonitorWallet(ls, wallet, sigs, txr, fail) ==
  LET seen == Get(ls, wallet, 0)
  IN IF sigs.raised
     THEN [ls |-> ls, step |-> SolStep("monitor", wallet, 0, seen, FALSE, None, <<>>, TRUE)]
     ELSE IF sigs.result = <<>>
     THEN [ls |-> ls, step |-> SolStep("monitor", wallet, 0, seen, FALSE, None, <<>>, FALSE)]
     ELSE LET latest_sig == sigs.result[1]
              skip(f, tx, al, r) == SolStep("monitor", wallet, latest_sig, seen, f, tx, al, r)
          IN IF seen = latest_sig
             THEN [ls |-> ls, step |-> skip(FALSE, None, <<>>, FALSE)]
             ELSE IF txr.raised
             THEN [ls |-> Record(ls, wallet, latest_sig), step |-> skip(TRUE, None, <<>>, TRUE)]
             ELSE IF txr.result = None
             THEN [ls |-> Record(ls, wallet, latest_sig), step |-> skip(TRUE, None, <<>>, FALSE)]
             ELSE IF txr.result.meta = None
             THEN [ls |-> Record(ls, wallet, latest_sig),
                   step |-> skip(TRUE, txr.result, <<>>, TRUE)]
             ELSE LET diff   == txr.result.meta.preBalances - txr.result.meta.postBalances
                      alerts == IF diff >= SOL(MONITOR_MIN_SOL)
                                THEN <<[action |-> "WHALE", mint |-> ""]>>
                                ELSE <<>>
                  IN [ls |-> Record(ls, wallet, latest_sig),
                      step |-> skip(TRUE, txr.result, Deliver(alerts, fail),
                                    fail \in 1..Len(alerts))]

\* the try body of solana_trade_monitor.monitor for one wallet
TradeWallet(ls, wallet, sigs, txr, fail) ==
  LET seen == Get(ls, wallet, 0)
  IN IF sigs.raised
     THEN [ls |-> ls, step |-> SolStep("trade", wallet, 0, seen, FALSE, None, <<>>, TRUE)]
     ELSE IF sigs.result = <<>>
     THEN [ls |-> ls, step |-> SolStep("trade", wallet, 0, seen, FALSE, None, <<>>, FALSE)]
     ELSE LET sig == sigs.result[1]
              skip(f, tx, al, r) == SolStep("trade", wallet, sig, seen, f, tx, al, r)
          IN IF seen = sig
             THEN [ls |-> ls, step |-> skip(FALSE, None, <<>>, FALSE)]
             ELSE IF txr.raised
             THEN [ls |-> Record(ls, wallet, sig), step |-> skip(TRUE, None, <<>>, TRUE)]
             ELSE IF txr.result = None
             THEN [ls |-> Record(ls, wallet, sig), step |-> skip(TRUE, None, <<>>, FALSE)]
             ELSE IF txr.result.meta = None
             THEN [ls |-> Record(ls, wallet, sig), step |-> skip(TRUE, txr.result, <<>>, FALSE)]
             ELSE LET alerts == TradeAlerts(txr.result.meta)
                  IN [ls |-> Record(ls, wallet, sig),
                      step |-> skip(TRUE, txr.result, Deliver(alerts, fail),
                                    fail \in 1..Len(alerts))]

\* check_wallet recording the signature only once the transaction is there
CheckWalletRecordAfter(ls, address, sigs, txr) ==
  LET seen == Get(ls, address, 0)
  IN IF sigs.raised
     THEN [ls |-> ls, step |-> SolStep("check", address, 0, seen, FALSE, None, <<>>, TRUE)]
     ELSE IF sigs.result = <<>>
     THEN [ls |-> ls, step |-> SolStep("check", address, 0, seen, FALSE, None, <<>>, FALSE)]
     ELSE LET latest_sig == sigs.result[1]
          IN IF seen = latest_sig
             THEN [ls |-> ls,
                   step |-> SolStep("check", address, latest_sig, seen, FALSE, None, <<>>, FALSE)]
             ELSE IF txr.raised \/ txr.result = None
             THEN [ls |-> ls,
                   step |-> SolStep("check", address, latest_sig, seen, TRUE, None, <<>>,
                                    txr.raised)]
             ELSE [ls |-> Record(ls, address, latest_sig),
                   step |-> SolStep("check", address, latest_sig, seen, TRUE, txr.result, <<>>,
                                    FALSE)]

\* solana_tracker.check_wallet(address); raised = the exception of an RPC
\* call left the function
CheckWallet(ls, address, sigs, txr) ==
  LET seen == Get(ls, address, 0)
  IN IF sigs.raised
     THEN [ls |-> ls, step |-> SolStep("check", address, 0, seen, FALSE, None, <<>>, TRUE)]
     ELSE IF sigs.result = <<>>
     THEN [ls |-> ls, step |-> SolStep("check", address, 0, seen, FALSE, None, <<>>, FALSE)]
     ELSE LET latest_sig == sigs.result[1]
          IN IF seen = latest_sig
             THEN [ls |-> ls,
                   step |-> SolStep("check", address, latest_sig, seen, FALSE, None, <<>>, FALSE)]
             ELSE [ls |-> Record(ls, address, latest_sig),
                   step |-> SolStep("check", address, latest_sig, seen, TRUE,
                                    IF txr.raised THEN None ELSE txr.result, <<>>, txr.raised)]

\* the count of fetches and of alert rounds of a wallet's present latest
\* signature after a step, kept at 2 from the second on
Counted(f, step) ==
  IF ~step.fetched THEN f
  ELSE [f EXCEPT ![step.wallet] =
          [gets   |-> IF @.gets < 2 THEN @.gets + 1 ELSE 2,
           rounds |-> IF step.alerts = <<>> THEN @.rounds
                      ELSE IF @.rounds < 2 THEN @.rounds + 1 ELSE 2]]

\* a transaction of wallet w lands on the chain: its latest signature is a new one
NewTx ==
  /\ variant \in {"monitor", "trade", "tracker"}
  /\ \E w \in Elems(SolWallets) :
       /\ chain[w] < MaxSig
       /\ chain' = [chain EXCEPT ![w] = @ + 1]
       /\ fetches' = [fetches EXCEPT ![w] = [gets |-> 0, rounds |-> 0]]
  /\ UNCHANGED <<key, seed, walletsFile, authorized_chats, stateFile, state, pc, wallets, idx,
                 attempted, failed, durable, last, probe, answer>>
  /\ UNCHANGED <<variant, db, lastCmd, last_signatures, lastSol>>

\* for wallet in wallets(): the loop of a cycle starts
SolLoad ==
  /\ variant \in {"monitor", "trade"}
  /\ pc = "load"
  /\ wallets' = SolWallets
  /\ idx' = 1
  /\ attempted' = <<>>
  /\ failed' = <<>>
  /\ pc' = "loop"
  /\ UNCHANGED <<key, seed, walletsFile, authorized_chats, stateFile, state, durable, last,
                 probe, answer>>
  /\ UNCHANGED otherVars

\* one iteration of the for loop of solana_monitor.monitor
MonitorStep ==
  /\ variant = "monitor"
  /\ pc = "loop"
  /\ idx <= Len(wallets)
  /\ \E sigs \in SigOutcomes(chain[wallets[idx]]), txr \in TxOutcomes, fail \in 0..2 :
       LET r == MonitorWallet(last_signatures, wallets[idx], sigs, txr, fail)
       IN /\ last_signatures' = r.ls
          /\ lastSol' = r.step
          /\ fetches' = Counted(fetches, r.step)
          /\ failed' = IF r.step.raised THEN Append(failed, wallets[idx]) ELSE failed
  /\ idx' = idx + 1
  /\ attempted' = Append(attempted, wallets[idx])
  /\ UNCHANGED <<key, seed, walletsFile, authorized_chats, stateFile, state, pc, wallets,
                 durable, last, probe, answer>>
  /\ UNCHANGED <<variant, db, lastCmd, chain>>

\* one iteration of the for loop of solana_trade_monitor.monitor
TradeStep ==
  /\ variant = "trade"
  /\ pc = "loop"
  /\ idx <= Len(wallets)
  /\ \E sigs \in SigOutcomes(chain[wallets[idx]]), txr \in TxOutcomes, fail \in 0..2 :
       LET r == TradeWallet(last_signatures, wallets[idx], sigs, txr, fail)
       IN /\ last_signatures' = r.ls
          /\ lastSol' = r.step
          /\ fetches' = Counted(fetches, r.step)
          /\ failed' = IF r.step.raised THEN Append(failed, wallets[idx]) ELSE failed
  /\ idx' = idx + 1
  /\ attempted' = Append(attempted, wallets[idx])
  /\ UNCHANGED <<key, seed, walletsFile, authorized_chats, stateFile, state, pc, wallets,
                 durable, last, probe, answer>>
  /\ UNCHANGED <<variant, db, lastCmd, chain>>

\* await asyncio.sleep(CHECK_INTERVAL), then the next turn of `while True`
SolSleep ==
  /\ variant \in {"monitor", "trade"}
  /\ pc = "loop"
  /\ idx > Len(wallets)
  /\ pc' = "load"
  /\ UNCHANGED <<key, seed, walletsFile, authorized_chats, stateFile, state, wallets, idx,
                 attempted, failed, durable, last, probe, answer>>
  /\ UNCHANGED otherVars

\* a call of solana_tracker.check_wallet
TrackerCheck ==
  /\ variant = "tracker"
  /\ \E address \in Elems(SolWallets) :
       \E sigs \in SigOutcomes(chain[address]), txr \in TxOutcomes :
         LET r == CheckWallet(last_signatures, address, sigs, txr)
         IN /\ last_signatures' = r.ls
            /\ lastSol' = r.step
            /\ fetches' = Counted(fetches, r.step)
  /\ UNCHANGED <<key, seed, walletsFile, authorized_chats, stateFile, state, pc, wallets, idx,
                 attempted, failed, durable, last, probe, answer>>
  /\ UNCHANGED <<variant, db, lastCmd, chain>>

\* ---------------------------------------------------------------- main.py poller
\* main.poll_wallet(bot, addr): found[i] = the i-th signal getter returned a
\* text (a getter catches its own exceptions); sendok = bot.send_message
\* went through. The first signal found is sent and the loop is left.
MainPollWallet(addr, found, sendok) ==
  LET hits == {i \in 1..3 : found[i]}
  IN IF hits = {}
     THEN SolStep("main", addr, 0, 0, FALSE, None, <<>>, FALSE)
     ELSE SolStep("main", addr, 0, 0, FALSE, None,
                  <<[action |-> "SIGNAL", mint |-> "", ok |-> sendok]>>, ~sendok)

\* wallets = load_wallets() of main.py: the list as the file holds it
MainLoad ==
  /\ variant = "main"
  /\ pc = "load"
  /\ wallets' = walletsFile
  /\ idx' = 1
  /\ attempted' = <<>>
  /\ failed' = <<>>
  /\ pc' = "loop"
  /\ UNCHANGED <<key, seed, walletsFile, authorized_chats, stateFile, state, durable, last,
                 probe, answer>>
  /\ UNCHANGED otherVars

\* one iteration of `for w in wallets: poll_wallet(bot, w)` of main.poller;
\* an exception of poll_wallet leaves poller and ends its thread
MainPoll ==
  /\ variant = "main"
  /\ pc = "loop"
  /\ idx <= Len(wallets)
  /\ \E found \in [1..3 -> BOOLEAN], sendok \in BOOLEAN :
       LET r == MainPollWallet(wallets[idx], found, sendok)
       IN /\ lastSol' = r
          /\ failed' = IF r.raised THEN Append(failed, wallets[idx]) ELSE failed
          /\ pc' = IF r.raised THEN "dead" ELSE "loop"
  /\ idx' = idx + 1
  /\ attempted' = Append(attempted, wallets[idx])
  /\ UNCHANGED <<key, seed, walletsFile, authorized_chats, stateFile, state, wallets, durable,
                 last, probe, answer>>
  /\ UNCHANGED <<variant, db, lastCmd, chain, last_signatures, fetches>>

\* time.sleep(POLL_INTERVAL) of main.poller, then the next turn of `while True`
MainSleep ==
  /\ variant = "main"
  /\ pc = "loop"
  /\ idx > Len(wallets)
  /\ pc' = "load"
  /\ UNCHANGED <<key, seed, walletsFile, authorized_chats, stateFile, state, wallets, idx,
                 attempted, failed, durable, last, probe, answer>>
  /\ UNCHANGED otherVars

\* one of the other pollers of the repository starts
InitPollers ==
  /\ variant \in {"main", "monitor", "trade", "tracker"}
  /\ db = <<>>
  /\ lastCmd = NoCmd
  /\ chain = [w \in Elems(SolWallets) |-> 0]
  /\ last_signatures = EmptyMap
  /\ fetches = [w \in Elems(SolWallets) |-> [gets |-> 0, rounds |-> 0]]
  /\ lastSol = NoSol
  /\ key = FALSE
  /\ seed = <<"BTC", "ETH">>
  /\ walletsFile = <<"a1", "b2">>
  /\ authorized_chats = {}
  /\ stateFile = NoFile
  /\ state = EmptyMap
  /\ durable = EmptyMap
  /\ pc = "load"
  /\ wallets = <<>>
  /\ idx = 1
  /\ attempted = <<>>
  /\ failed = <<>>
  /\ last = NoStep
  /\ probe = NoProbe
  /\ answer = NoAnswer

NextPollers ==
  \/ MainLoad \/ MainPoll \/ MainSleep
  \/ NewTx \/ SolLoad \/ MonitorStep \/ TradeStep \/ SolSleep \/ TrackerCheck

SpecPollers == InitPollers /\ [][NextPollers]_vars

\* ---------------------------------------------------------------- diff check
\* payloads of the coinglass assets endpoint
DiffAssets ==
  { <<>>,
    <<[symbol |-> "BTC", balance_usd |-> USD(100)]>>,
    <<[symbol |-> "BTC", balance_usd |-> USD(100) + 1]>>,
    <<[symbol |-> "BTC", balance_usd |-> USD(101)]>>,
    <<[symbol |-> "BTC", balance_usd |-> USD(100) + 1], [symbol |-> "ETH", balance_usd |-> USD(40)]>>,
    <<[symbol |-> "BTC", balance_usd |-> USD(250)], [symbol |-> "ETH", balance_usd |-> USD(40)]>>,
    <<[symbol |-> "ETH", balance_usd |-> USD(5)]>>,
    <<[symbol |-> "ETH", balance_usd |-> USD(10)], [symbol |-> "BTC", balance_usd |-> 0]>>,
    <<[symbol |-> "ETH", balance_usd |-> 1], [symbol |-> "BTC", balance_usd |-> USD(100)]>> }

\* one record of the coinglass positions endpoint
Pos(sym, value, size) == [symbol |-> sym, position_value_usd |-> value, position_size |-> size]

\* payloads of the coinglass positions endpoint
DiffPositions ==
  { <<>>,
    <<Pos("AAA", USD(500), 2)>>,
    <<Pos("AAA", USD(510), 2)>>,
    <<Pos("AAA", USD(525), 2)>>,
    <<Pos("AAA", USD(530), 2)>>,
    <<Pos("AAA", USD(400), 2)>>,
    <<Pos("AAA", USD(500), -2)>>,
    <<Pos("AAA", USD(100), 1), Pos("AAA", USD(50), 1)>> }

\* total_usd_value of debank answers without assets
DiffTotals == { 0, USD(1000), USD(1003), USD(1005), USD(1005) + 1, USD(1010) }

\* the snapshots the fetchers build from these payloads
DiffSnaps ==
  { FetchFromCoinglass("a1", TRUE, Http(TRUE, TRUE, a), Http(TRUE, TRUE, p)) :
      a \in DiffAssets, p \in DiffPositions }
  \cup { FetchFromDebank("a1", Http(TRUE, TRUE, [total_usd_value |-> t, wallet_asset_list |-> <<>>])) :
           t \in DiffTotals }
  \cup { FetchFromDexscreenerAddr("a1", Http(TRUE, TRUE, <<[symbol |-> "ETH", liquidity |-> USD(40)]>>)),
         FetchFromHyperdash("a1", Http(TRUE, TRUE,
                                  <<[symbol |-> "AAA", notional |-> USD(500), isLong |-> TRUE]>>)) }

\* the stores a diff can meet: no record yet, or the record of an earlier snapshot
DiffStores == {EmptyMap} \cup { AssignState(EmptyMap, "a1", NewState(sn)) : sn \in DiffSnaps }

\* One diff of every snapshot against every store, under every set order.
InitDiff ==
  /\ BotOnly
  /\ probe \in [st : DiffStores, snap : DiffSnaps, seed : Seeds]
  /\ answer = [done |-> FALSE, raised |-> FALSE, events |-> <<>>]
  /\ key = FALSE
  /\ seed = probe.seed
  /\ walletsFile = <<>>
  /\ authorized_chats = {}
  /\ stateFile = NoFile
  /\ state = probe.st
  /\ durable = EmptyMap
  /\ pc = "load"
  /\ wallets = <<>>
  /\ idx = 1
  /\ attempted = <<>>
  /\ failed = <<>>
  /\ last = NoStep

\* events = compare_and_generate_events(addr, snap)
DoDiff ==
  /\ ~answer.done
  /\ LET d == CompareAndGenerateEvents(state, "a1", probe.snap, seed)
     IN answer' = [done |-> TRUE, raised |-> d.raised, events |-> d.events]
  /\ UNCHANGED otherVars
  /\ UNCHANGED <<key, seed, walletsFile, authorized_chats, stateFile, state, pc, wallets, idx,
                 attempted, failed, durable, last, probe>>

NextDiff == DoDiff

SpecDiff == InitDiff /\ [][NextDiff]_vars

\* ---------------------------------------------------------------- notifier check
\* largest number of events one diff hands to the notifier
MaxEvents == 2

\* the chats that may be authorized
AllChats == {7, 9}

\* list(authorized_chats): the chats of a set in the order the process iterates it
ChatOrders == { <<>>, <<7>>, <<9>>, <<7, 9>>, <<9, 7>> }

\* send_message_sync(chat_id, text): bot.send_message raises for the pairs
\* (event, chat) of fails; the exception is logged and not passed on
SendMessageSync(chat, ev, fails) ==
  [raised |-> FALSE, attempts |-> <<[chat |-> chat, ev |-> ev, ok |-> <<ev, chat>> \notin fails]>>]

\* a notifier loop that ends at the first delivery that failed
RECURSIVE SendSignalSyncAbort(_, _, _)
SendSignalSyncAbort(order, ev, fails) ==
  IF order = <<>> THEN [raised |-> FALSE, attempts |-> <<>>]
  ELSE LET m == SendMessageSync(Head(order), ev, fails)
       IN IF ~m.attempts[1].ok THEN [raised |-> TRUE, attempts |-> m.attempts]
          ELSE LET rest == SendSignalSyncAbort(Tail(order), ev, fails)
               IN [raised |-> rest.raised, attempts |-> m.attempts \o rest.attempts]

\* send_signal_sync(text): for cid in list(authorized_chats): try / except
RECURSIVE SendSignalSync(_, _, _)
SendSignalSync(order, ev, fails) ==
  IF order = <<>> THEN [raised |-> FALSE, attempts |-> <<>>]
  ELSE LET m    == SendMessageSync(Head(order), ev, fails)
           rest == SendSignalSync(Tail(order), ev, fails)
       IN [raised |-> FALSE, attempts |-> m.attempts \o rest.attempts]

\* for e in events: send_signal_sync(...), events numbered from ev on; an
\* exception out of send_signal_sync would end the loop
RECURSIVE SendEvents(_, _, _, _)
SendEvents(order, ev, n, fails) ==
  IF ev > n THEN [raised |-> FALSE, attempts |-> <<>>]
  ELSE LET one == SendSignalSync(order, ev, fails)
       IN IF one.raised THEN one
          ELSE LET rest == SendEvents(order, ev + 1, n, fails)
               IN [raised |-> rest.raised, attempts |-> one.attempts \o rest.attempts]

\* One address's events sent to every set of chats under every set of failing deliveries.
InitNotify ==
  /\ BotOnly
  /\ probe \in [order : ChatOrders, n : 0..MaxEvents,
                fails : SUBSET ((1..MaxEvents) \X AllChats)]
  /\ answer = [done |-> FALSE, raised |-> FALSE, attempts |-> <<>>]
  /\ key = FALSE
  /\ seed = <<"BTC", "ETH">>
  /\ walletsFile = <<>>
  /\ authorized_chats = {probe.order[i] : i \in 1..Len(probe.order)}
  /\ stateFile = NoFile
  /\ state = EmptyMap
  /\ durable = EmptyMap
  /\ pc = "load"
  /\ wallets = <<>>
  /\ idx = 1
  /\ attempted = <<>>
  /\ failed = <<>>
  /\ last = NoStep

\* the sending loop at the end of process_wallet_sync
DoNotify ==
  /\ ~answer.done
  /\ LET r == SendEvents(probe.order, 1, probe.n, probe.fails)
     IN answer' = [done |-> TRUE, raised |-> r.raised, attempts |-> r.attempts]
  /\ UNCHANGED otherVars
  /\ UNCHANGED <<key, seed, walletsFile, authorized_chats, stateFile, state, pc, wallets, idx,
                 attempted, failed, durable, last, probe>>

NextNotify == DoNotify

SpecNotify == InitNotify /\ [][NextNotify]_vars

\* ---------------------------------------------------------------- properties
\* a fetcher outcome that is a snapshot
IsSnap(o) == o # None /\ o # Raise

\* the latest step was a call of process_wallet_sync that got a snapshot and diffed it
Diffed == last.op = "poll" /\ Truthy(last.snap) /\ ~last.raised

\* C1: diffing a stored WalletState against a snapshot with the same tokens,
\* positions and usd_total yields no event, also when the positions hold
\* several records with one (symbol, side) key.
C1_DiffOfSameIsEmpty ==
  (Diffed /\ NewState(last.snap) = last.prev) => last.events = <<>>

\* C2: when the resolver yields nothing for an address, that poll step leaves
\* the in-memory state and the state file as they were and sends no event, so
\* the stored state stays the baseline of the next diff.
C2_AbsentLeavesState ==
  [][(pc = "loop" /\ idx' = idx + 1 /\ ~Truthy(last'.snap))
       => (state' = state /\ stateFile' = stateFile
           /\ last'.events = <<>> /\ last'.sent = <<>>)]_vars

\* an absent cycle happened over a stored, non-empty record, which is still there
C2_Witness ==
  /\ last.op = "poll"
  /\ ~Truthy(last.snap)
  /\ last.addr \in DOMAIN state
  /\ state[last.addr].tokens # <<>>
  /\ last.prev = state[last.addr]

\* the exchanges of the probed resolve that answered with a non-2xx status
NonOk(r) == ~r.err /\ ~r.ok

\* C3: a non-2xx answer to coinglass or to debank makes that provider
\* absent: the resolver's result is never a snapshot of that provider.
C3_Non2xxIsAbsent ==
  (answer.done /\ probe.fault = 0) =>
    /\ (NonOk(probe.world.assets) \/ NonOk(probe.world.positions))
         => Get(answer.result, "source", "") # "coinglass"
    /\ NonOk(probe.world.debank) => Get(answer.result, "source", "") # "debank"

\* the fetcher outcomes of the probed resolve
ProbeOuts == FetcherOutcomes("a1", probe.key, probe.world, probe.fault)

\* C4: the result is the snapshot of the first provider, in the fixed order,
\* that returns one, unchanged, and no later provider is called.
C4_FirstProviderWins ==
  answer.done =>
    \A i \in 1..4 :
      (IsSnap(ProbeOuts[i]) /\ \A k \in 1..(i - 1) : ~IsSnap(ProbeOuts[k]))
        => (answer.result = ProbeOuts[i] /\ answer.consulted = [j \in 1..i |-> j])

\* two providers hold different snapshots and the earlier one was returned
C4_Witness ==
  /\ answer.done
  /\ \E i \in 1..4, j \in 1..4 :
       /\ i < j
       /\ IsSnap(ProbeOuts[i]) /\ IsSnap(ProbeOuts[j])
       /\ ProbeOuts[i].tokens # Get(ProbeOuts[j], "tokens", <<>>)
       /\ answer.result = ProbeOuts[i]
       /\ j \notin {answer.consulted[n] : n \in 1..Len(answer.consulted)}

\* C5: a provider that raises is passed over: the exception never leaves the
\* resolver, the providers after it are still called, and the result is the
\* first snapshot among the providers that did not fail, or None.
C5_RaiseIsPassedOver ==
  answer.done =>
    /\ answer.result # Raise
    /\ probe.fault # 0 =>
         LET good == {i \in 1..4 : IsSnap(ProbeOuts[i])}
         IN IF good = {}
            THEN answer.result = None /\ Len(answer.consulted) = 4
            ELSE LET first == CHOOSE i \in good : \A j \in good : i <= j
                 IN /\ answer.result = ProbeOuts[first]
                    /\ Len(answer.consulted) = first

\* coinglass raised and a later provider's snapshot was returned
C5_Witness ==
  /\ answer.done
  /\ probe.fault = 1
  /\ IsSnap(answer.result)
  /\ answer.result.source # "coinglass"
  /\ answer.consulted[1] = 1

\* C6: every snapshot the resolver returns has tokens, positions and a
\* non-negative usd_total.
C6_SnapshotIsNormalized ==
  (answer.done /\ IsSnap(answer.result)) =>
    /\ {"tokens", "positions", "usd_total"} \subseteq DOMAIN answer.result
    /\ answer.result.usd_total >= 0

\* C7: an exception while one address is processed is caught: the poller
\* never dies, calls process_wallet_sync for every address of the loaded
\* list in order, and reaches the sleep with all of them attempted.
C7_FailureIsIsolated ==
  /\ pc # "dead"
  /\ pc = "loop" => attempted = SubSeq(wallets, 1, idx - 1)
  /\ pc = "sleep" => attempted = wallets

\* a cycle ended in which the first address raised and the second was processed
C7_Witness ==
  /\ pc = "sleep"
  /\ failed = <<"a1">>
  /\ attempted = <<"a1", "b2">>

\* C8: when the write of state.json fails, none of that cycle's events is sent.
C8_NoSendAfterFailedWrite ==
  (last.op = "poll" /\ last.wrote /\ ~last.persisted) => last.sent = <<>>

\* C9: the store holds one record per lowercased address; a successful poll
\* step replaces the record of its address by the snapshot's usd_total,
\* tokens and positions and leaves every other record alone; any other step
\* of the poller leaves the store alone.
C9_OverwriteOnly ==
  [][/\ \A k \in DOMAIN state' : Lower(k) = k
     /\ IF pc = "loop" /\ idx' = idx + 1 /\ Truthy(last'.snap) /\ ~last'.raised
        THEN /\ DOMAIN state' = DOMAIN state \cup {Lower(wallets[idx])}
             /\ \A k \in DOMAIN state' :
                  IF k = Lower(wallets[idx])
                  THEN /\ state'[k].usd_total = Get(last'.snap, "usd_total", 0)
                       /\ state'[k].tokens = Get(last'.snap, "tokens", <<>>)
                       /\ state'[k].positions = Get(last'.snap, "positions", <<>>)
                  ELSE state'[k] = state[k]
        ELSE state' = state]_vars

\* a record with tokens was replaced by a snapshot naming other tokens, while
\* the other address has a record too
C9_Witness ==
  /\ Diffed
  /\ DOMAIN state = {"a1", "b2"}
  /\ last.prev.tokens # <<>>
  /\ state[last.addr].tokens # <<>>
  /\ Keys(last.prev.tokens) \cap Keys(state[last.addr].tokens) = {}

\* C10: what a restart loads holds no torn record: every loaded record is
\* the record of that address in the last write of state.json that completed.
C10_NoTornRecordLoaded ==
  last.op = "restart" =>
    \A a \in DOMAIN state : a \in DOMAIN durable /\ state[a] = durable[a]

\* a restart found the file cut inside a record, after a complete write
\* had stored one, and loaded nothing
C10_Witness ==
  /\ last.op = "restart"
  /\ stateFile.exists
  /\ ~WellFormed(stateFile.data)
  /\ Len(stateFile.data) >= 3
  /\ "a1" \in DOMAIN durable
  /\ durable["a1"].tokens # <<>>
  /\ state = EmptyMap

\* ---------------------------------------------------------------- diff properties
\* the inputs of the probed diff
PrevTokens    == Get(GetWalletState(probe.st, "a1"), "tokens", <<>>)
NowTokens     == Get(probe.snap, "tokens", <<>>)
PrevPositions == Get(GetWalletState(probe.st, "a1"), "positions", <<>>)
NowPositions  == Get(probe.snap, "positions", <<>>)
PrevTotal     == Get(GetWalletState(probe.st, "a1"), "usd_total", 0)
NowTotal      == Get(probe.snap, "usd_total", 0)

\* the probed diff returned its event list
DiffDone == answer.done /\ ~answer.raised

\* the events of one type; of one type and symbol; of one type, symbol and side
OfType(t) == {i \in 1..Len(answer.events) : answer.events[i].type = t}
OfTok(t, sym) == {i \in OfType(t) : answer.events[i].sym = sym}
OfPos(t, sym, side) == {i \in OfTok(t, sym) : answer.events[i].side = side}

\* the records of a positions list with the key (sym, side)
Listed(ps, sym, side) == {i \in 1..Len(ps) : ps[i].symbol = sym /\ ps[i].side = side}

PosSyms == {PrevPositions[i].symbol : i \in 1..Len(PrevPositions)}
             \cup {NowPositions[i].symbol : i \in 1..Len(NowPositions)}
Sides == {"long", "short", ""}

\* C12: against an empty previous state, a snapshot with k tokens above the
\* new-token floor (10.0) gives exactly k NEW events, exactly k BUY events
\* and one OPEN event per current position.
C12_FirstDiffCounts ==
  (DiffDone /\ probe.st = EmptyMap) =>
    LET above == {sym \in Keys(NowTokens) : TokGet(NowTokens, sym, 0) > USD(10)}
    IN /\ Cardinality(OfType("NEW")) = Cardinality(above)
       /\ Cardinality(OfType("BUY")) = Cardinality(above)
       /\ Cardinality(OfType("OPEN")) = Len(NowPositions)

\* C13: a NEW event is emitted for a symbol exactly when it is in the current
\* tokens, not in the previous tokens, and its magnitude is above 10.0.
C13_NewOnlyAboveFloor ==
  DiffDone =>
    \A sym \in Keys(PrevTokens) \cup Keys(NowTokens) :
      (OfTok("NEW", sym) # {})
        <=> (/\ sym \in Keys(NowTokens)
             /\ sym \notin Keys(PrevTokens)
             /\ TokGet(NowTokens, sym, 0) > USD(10))

\* C14: a position key of the previous state that no current position has
\* gets exactly one CLOSE event, however often the previous list names it.
C14_OneClosePerKey ==
  DiffDone =>
    \A sym \in PosSyms, side \in Sides :
      (Listed(PrevPositions, sym, side) # {} /\ Listed(NowPositions, sym, side) = {})
        => Cardinality(OfPos("CLOSE", sym, side)) = 1

C16_NoiseFloorThenBuyOrSell ==
  DiffDone =>
    \A sym \in Keys(PrevTokens) \cup Keys(NowTokens) :
      LET delta == TokGet(NowTokens, sym, 0) - TokGet(PrevTokens, sym, 0)
          buys  == Cardinality(OfTok("BUY", sym))
          sells == Cardinality(OfTok("SELL", sym))
      IN IF Abs(delta) < USD(1) THEN buys = 0 /\ sells = 0
         ELSE IF delta > 0 THEN buys = 1 /\ sells = 0
         ELSE buys = 0 /\ sells = 1

\* one token moved by less than the threshold and got no event, while the
\* other moved by more and got its BUY
C16_Witness ==
  /\ DiffDone
  /\ Abs(TokGet(NowTokens, "BTC", 0) - TokGet(PrevTokens, "BTC", 0)) \in 1..(USD(1) - 1)
  /\ OfTok("BUY", "BTC") = {} /\ OfTok("SELL", "BTC") = {}
  /\ TokGet(NowTokens, "ETH", 0) - TokGet(PrevTokens, "ETH", 0) >= USD(1)
  /\ Cardinality(OfTok("BUY", "ETH")) = 1

\* C17: the diff holds exactly one BALANCE event, with the old and the new
\* total, when the totals differ by more than 5.0, and none otherwise; a
\* missing usd_total counts as 0.
C17_BalanceAboveFive ==
  DiffDone =>
    IF Abs(NowTotal - PrevTotal) > USD(5)
    THEN /\ Cardinality(OfType("BALANCE")) = 1
         /\ \A i \in OfType("BALANCE") :
              answer.events[i].old = PrevTotal /\ answer.events[i].new = NowTotal
    ELSE OfType("BALANCE") = {}

\* the total went from 1000 to 1010 and the diff holds the one BALANCE event
C17_Witness ==
  /\ DiffDone
  /\ PrevTotal = USD(1000)
  /\ NowTotal = USD(1010)
  /\ Cardinality(OfType("BALANCE")) = 1

\* the other side of a position
Flip(side) == IF side = "long" THEN "short" ELSE "long"

\* C18: when a symbol's position is on one side in the previous state and
\* only on the other side in the snapshot, the diff holds a CLOSE for the old
\* side and an OPEN for the new side, and no other position event for the
\* symbol.
C18_FlipIsCloseAndOpen ==
  DiffDone =>
    \A sym \in PosSyms, side \in {"long", "short"} :
      (/\ Listed(PrevPositions, sym, side) # {}
       /\ Listed(PrevPositions, sym, Flip(side)) = {}
       /\ Listed(NowPositions, sym, side) = {}
       /\ Listed(NowPositions, sym, Flip(side)) # {})
        => /\ OfPos("CLOSE", sym, side) # {}
           /\ Cardinality(OfPos("OPEN", sym, Flip(side)))
                = Cardinality(Listed(NowPositions, sym, Flip(side)))
           /\ OfTok("INCREASE", sym) = {}
           /\ OfPos("OPEN", sym, side) = {}
           /\ OfPos("CLOSE", sym, Flip(side)) = {}

\* a long position became a short one: one CLOSE long and one OPEN short
C18_Witness ==
  /\ DiffDone
  /\ Listed(PrevPositions, "AAA", "long") = {1} /\ Len(PrevPositions) = 1
  /\ Listed(NowPositions, "AAA", "short") = {1} /\ Len(NowPositions) = 1
  /\ Cardinality(OfPos("CLOSE", "AAA", "long")) = 1
  /\ Cardinality(OfPos("OPEN", "AAA", "short")) = 1

\* ---------------------------------------------------------------- command properties
\* C11: the dict state and state.json are written by the poller only: a
\* step of /add (with its test run), /remove or /debug leaves both as they
\* were, so what an on-demand lookup resolved is never the stored baseline.
C11_OnlyPollerWrites ==
  [][(state' # state \/ stateFile' # stateFile) => last'.op = "poll"]_vars

\* /debug resolved a snapshot that differs from the stored record of the
\* address, and the stored record is still the one the poller wrote
C11_Witness ==
  /\ last.op = "debug"
  /\ Truthy(last.snap)
  /\ last.addr \in DOMAIN state
  /\ state[last.addr] = last.prev
  /\ NewState(last.snap) # state[last.addr]

\* ---------------------------------------------------------------- empty snapshot
\* the latest step polled an address and resolved a snapshot that is present
\* and holds no token, no position and a zero total
PolledEmpty ==
  /\ last.op = "poll"
  /\ last.snap # None
  /\ Get(last.snap, "tokens", <<>>) = <<>>
  /\ Get(last.snap, "positions", <<>>) = <<>>
  /\ Get(last.snap, "usd_total", 0) = 0

\* C19: an empty but present snapshot for an address with a stored record
\* whose diff can be computed is not skipped: the stored record becomes the
\* empty one, every previous token of at least the noise threshold gets one
\* SELL to 0, and every previous position record gets its CLOSE.
C19_EmptySnapshotClearsState ==
  (PolledEmpty /\ ~last.raised) =>
    /\ last.wrote
    /\ state[last.addr] = NewState(last.snap)
    /\ state[last.addr] = EmptyState
    /\ \A t \in 1..Len(last.prev.tokens) :
         last.prev.tokens[t].val >= USD(1) =>
           Cardinality({i \in 1..Len(last.events) :
                          /\ last.events[i].type = "SELL"
                          /\ last.events[i].sym = last.prev.tokens[t].sym
                          /\ last.events[i].old = last.prev.tokens[t].val
                          /\ last.events[i].new = 0}) = 1
    /\ Cardinality({i \in 1..Len(last.events) : last.events[i].type = "CLOSE"})
         = Len(last.prev.positions)
    /\ \A q \in 1..Len(last.prev.positions) :
         \E i \in 1..Len(last.events) :
           /\ last.events[i].type = "CLOSE"
           /\ last.events[i].sym = last.prev.positions[q].symbol
           /\ last.events[i].side = last.prev.positions[q].side
           /\ last.events[i].old = last.prev.positions[q].size_usd

\* a record with a token and positions met an empty snapshot and was cleared
C19_Witness ==
  /\ PolledEmpty
  /\ ~last.raised
  /\ last.prev.tokens # <<>>
  /\ last.prev.positions # <<>>
  /\ state[last.addr] = EmptyState
  /\ \E i \in 1..Len(last.events) : last.events[i].type = "SELL"
  /\ \E i \in 1..Len(last.events) : last.events[i].type = "CLOSE"

\* ---------------------------------------------------------------- notifier properties
\* the attempts to deliver event ev to chat c
Attempts(ev, c) ==
  {i \in 1..Len(answer.attempts) : answer.attempts[i].ev = ev /\ answer.attempts[i].chat = c}

\* C20: every event is handed to every authorized chat exactly once, in the
\* order of the events, whichever deliveries fail: a failed delivery ends
\* neither the round of its event nor the later events, nothing is sent
\* twice, and no exception leaves the loop.
C20_EveryChatEveryEvent ==
  answer.done =>
    /\ ~answer.raised
    /\ Len(answer.attempts) = probe.n * Cardinality(authorized_chats)
    /\ \A ev \in 1..probe.n, c \in authorized_chats :
         /\ Cardinality(Attempts(ev, c)) = 1
         /\ \A i \in Attempts(ev, c) : answer.attempts[i].ok = (<<ev, c>> \notin probe.fails)
    /\ \A i, j \in 1..Len(answer.attempts) :
         i < j => answer.attempts[i].ev <= answer.attempts[j].ev

\* the first delivery of the first event failed; the other chat still got
\* that event, and both chats were handed the second event
C20_Witness ==
  /\ answer.done
  /\ Len(probe.order) = 2
  /\ probe.n = 2
  /\ ~answer.attempts[1].ok
  /\ answer.attempts[2].ok
  /\ answer.attempts[2].ev = 1
  /\ answer.attempts[2].chat # answer.attempts[1].chat
  /\ Len(answer.attempts) = 4

\* ---------------------------------------------------------------- diff order
\* C22: the events of a diff and their order depend on the previous state
\* and the snapshot alone: the process's set iteration order (its string
\* hash seed) makes no difference, also not to the relative order of the
\* BUY / SELL events of different symbols.
C22_SameEventsUnderEverySeed ==
  DiffDone =>
    \A sd \in Seeds :
      CompareAndGenerateEvents(probe.st, "a1", probe.snap, sd).events = answer.events

\* the stage an event type belongs to
Stage(type) ==
  IF type = "NEW" THEN 1
  ELSE IF type \in {"BUY", "SELL"} THEN 2
  ELSE IF type = "BALANCE" THEN 3
  ELSE 4

\* the events of stage n, in the order of the list
OfStage(n) == SelectSeq(answer.events, LAMBDA e : Stage(e.type) = n)

\* C23: in every event list the NEW events come first, then the BUY / SELL
\* events, then the BALANCE event, then the position events; and each stage
\* contributes what its inputs call for whatever the stages before it gave.
C23_StagesInOrder ==
  DiffDone =>
    /\ \A i, j \in 1..Len(answer.events) :
         i < j => Stage(answer.events[i].type) <= Stage(answer.events[j].type)
    /\ OfStage(1) = NewTokenEvents(PrevTokens, NowTokens)
    /\ OfStage(2) = DeltaEvents(PrevTokens, NowTokens,
                              SetOrder(Keys(PrevTokens) \cup Keys(NowTokens), seed))
    /\ OfStage(3) = BalanceEvents(PrevTotal, NowTotal)
    /\ OfStage(4) = OpenIncreaseEvents(PrevPositions, NowPositions)
                      \o CloseEvents(PrevPositions, NowPositions)

\* one diff with events of all four stages
C23_Witness ==
  /\ DiffDone
  /\ \A n \in 1..4 : OfStage(n) # <<>>

\* ---------------------------------------------------------------- cycle order
\* C25: in one address's cycle the state is stored only after the diff has
\* returned and the events are sent only after the store was attempted: a
\* poll step whose diff raised leaves the dict state and state.json as they
\* were and sends nothing, and a poll step that sent events attempted the
\* write of the record first.
C25_DiffThenStoreThenNotify ==
  [][(pc = "loop" /\ idx' = idx + 1) =>
       /\ last'.raised =>
            (state' = state /\ stateFile' = stateFile /\ ~last'.wrote /\ last'.sent = <<>>)
       /\ last'.sent # <<>> =>
            (last'.wrote /\ last'.addr \in DOMAIN state'
               /\ state'[last'.addr] = NewState(last'.snap))]_vars

\* the diff of a resolved snapshot raised over a stored record, and the
\* record is still the stored one
C25_Witness ==
  /\ last.op = "poll"
  /\ last.raised
  /\ last.snap # None
  /\ last.addr \in DOMAIN state
  /\ state[last.addr] = last.prev
  /\ NewState(last.snap) # last.prev
  /\ last.sent = <<>>

\* ---------------------------------------------------------------- watch-list properties
\* no element twice
NoDup(ws) == \A i, j \in 1..Len(ws) : ws[i] = ws[j] => i = j

\* the addresses of the rows of the table wallets
DbAddresses(rows) == [i \in 1..Len(rows) |-> rows[i].address]

\* C21: after any sequence of add and remove commands each watch-list holds
\* an address at most once; adding an address that is in the list and
\* removing one that is not leave the list as it was. This is for
\* wallets.json of the hyperdash bot and of main.py and for the table of
\* wallet_store.
C21_IdempotentAddRemove ==
  [][/\ NoDup(walletsFile')
     /\ NoDup(DbAddresses(db'))
     /\ (variant = "bot" /\ last'.op = "add" /\ last'.addr \in Elems(LoadedWallets(walletsFile)))
          => walletsFile' = walletsFile
     /\ (variant = "bot" /\ last'.op = "remove" /\ last'.addr \notin Elems(LoadedWallets(walletsFile)))
          => walletsFile' = walletsFile
     /\ (variant = "main" /\ lastCmd'.op = "add" /\ lastCmd'.addr \in Elems(walletsFile))
          => walletsFile' = walletsFile
     /\ (variant = "store" /\ lastCmd'.op = "addwallet"
           /\ lastCmd'.addr \in Elems(DbAddresses(db)))
          => db' = db
     /\ (variant = "store" /\ lastCmd'.op = "removewallet"
           /\ lastCmd'.addr \notin Elems(DbAddresses(db)))
          => db' = db]_vars

\* an address that was in the table was added again and the table still
\* holds it once, next to another address
C21_Witness ==
  /\ variant = "store"
  /\ lastCmd.op = "addwallet"
  /\ lastCmd.had
  /\ Len(db) = 2
  /\ Cardinality({i \in 1..Len(db) : db[i].address = lastCmd.addr}) = 1

\* C27: /addwallet answers with the success message exactly when the address
\* was not in the table before, and /removewallet with the removed message
\* exactly when it was.
C27_ReplyTellsOutcome ==
  /\ (lastCmd.op = "addwallet" /\ lastCmd.addr # "")
       => (lastCmd.reply = "added" <=> ~lastCmd.had)
  /\ (lastCmd.op = "removewallet" /\ lastCmd.addr # "")
       => (lastCmd.reply = "removed" <=> lastCmd.had)

\* ---------------------------------------------------------------- other pollers
\* C24: in main.poller and in both Solana monitors the addresses of a cycle
\* are processed one after the other, and a failure at one address (a failed
\* send included) neither keeps the rest of the cycle from being processed
\* nor ends the loop.
C24_EveryPollerIsolates ==
  /\ pc # "dead"
  /\ pc = "loop" => attempted = SubSeq(wallets, 1, idx - 1)

\* the Solana variants
Solana == variant \in {"monitor", "trade", "tracker"}

\* C26: a wallet's latest signature is in last_signatures once its
\* transaction was asked for, whatever the fetch gave; a wallet whose latest
\* signature is the recorded one is skipped; so while the latest signature
\* stays the same its transaction is fetched at most once and at most one
\* round of alerts is sent.
C26_OneFetchPerSignature ==
  Solana =>
    /\ \A w \in Elems(SolWallets) : fetches[w].gets <= 1 /\ fetches[w].rounds <= 1
    /\ lastSol.fetched =>
         (lastSol.wallet \in DOMAIN last_signatures
            /\ last_signatures[lastSol.wallet] = lastSol.sig
            /\ lastSol.seen # lastSol.sig)
    /\ (lastSol.sig # 0 /\ lastSol.seen = lastSol.sig) =>
         (~lastSol.fetched /\ lastSol.alerts = <<>>)

\* the fetch of a wallet's transaction failed, and a later step met the
\* same signature and skipped the wallet
C26_Witness ==
  /\ Solana
  /\ lastSol.sig # 0
  /\ lastSol.seen = lastSol.sig
  /\ ~lastSol.fetched
  /\ fetches[lastSol.wallet] = [gets |-> 1, rounds |-> 0]
  /\ chain[lastSol.wallet] = lastSol.sig

\* the amount of a mint in a list of token balances
Amount(items, mint) == TokGet(MintDict(items, <<>>), mint, 0)

\* C28: an alert of solana_trade_monitor says BUY only when the token amount
\* went up and the SOL balance of the first account went down, SELL only
\* when the amount went down and the balance went up; a transaction moving
\* less than MIN_SOL gives no alert, and neither does an unchanged token.
C28_TradeLabels ==
  (lastSol.op = "trade" /\ lastSol.tx # None /\ lastSol.tx.meta # None) =>
    LET meta == lastSol.tx.meta
    IN /\ \A i \in 1..Len(lastSol.alerts) :
            LET al   == lastSol.alerts[i]
                pre  == Amount(meta.preTokenBalances, al.mint)
                post == Amount(meta.postTokenBalances, al.mint)
            IN /\ post # pre
               /\ al.action = "BUY" => (post > pre /\ meta.postBalances < meta.preBalances)
               /\ al.action = "SELL" => (post < pre /\ meta.postBalances > meta.preBalances)
       /\ Abs(meta.preBalances - meta.postBalances) < SOL(TRADE_MIN_SOL)
            => lastSol.alerts = <<>>

====
